---- MODULE Spec2Model ----
(***************************************************************************)
(* Leaderboard synchronisation pipeline of leetcode_ranking:               *)
(*   - the HTTP handlers SyncLeaderboard / StopSyncing / GetSyncingStatus  *)
(*   - userService.SyncLeaderboard (the page loop of one run)              *)
(*   - userService.processUsersConcurrently (the per-page worker pool)     *)
(*   - Storage.UpsertUserData (truncate staging, bulk-load, merge)         *)
(* Strings are sequences of characters; character 0 is a blank.            *)
(***************************************************************************)
EXTENDS Integers, Sequences, FiniteSets, TLC

VARIABLES
    sync,          \* userService.sync
    syncingPage,   \* userService.syncingPage
    hnd,           \* the start-run requests (Handler.SyncLeaderboard), one per run
    run,           \* the SyncLeaderboard calls, one per admitted start-run request
    enr,           \* the processUsersConcurrently call of each run
    tx,            \* the UpsertUserData transaction of each run
    userData,      \* committed rows of table user_data
    staging,       \* committed rows of the staging table
    status,        \* the get-status request (Handler.GetSyncingStatus) and its reply
    create,        \* the create-user request (Handler.CreateUser) and its reply
    svc,           \* the direct call of DeleteUserByUsername / UpdateUserByUsername
    cfg            \* the environment: requests the clients send, size of the leaderboard

vars == <<sync, syncingPage, hnd, run, enr, tx, userData, staging, status, create, svc, cfg>>

(***************************************************************************)
(* Bounds                                                                  *)
(***************************************************************************)
MaxNames == 2      \* usernames given to one processUsersConcurrently call
MaxStarts == 2     \* start-run requests the clients send
SysPages == 2      \* pages of the leaderboard when two runs overlap
RunPages == 5      \* pages of the leaderboard in the single-request scenario
MaxBatch == 2      \* records of a batch handed to UpsertUserData on its own
MaxCalls == 2      \* times the same batch is handed to UpsertUserData
MaxEntries == 3    \* ranking entries of the page in the single-page scenario
CallPages == 3     \* pages of the leaderboard when SyncLeaderboard is called directly
MaxStoreCalls == 3 \* direct calls of DeleteUserByUsername / UpdateUserByUsername

HandlerWorkers == 4
DefaultWorkers == 3
DefaultDelay == 800

(***************************************************************************)
(* Strings                                                                 *)
(***************************************************************************)
Alice == <<1>>
Bob == <<2>>
Blank == <<0>>
PaddedAlice == <<0, 1, 0>>

RECURSIVE TrimLeft(_)
TrimLeft(s) == IF s # <<>> /\ Head(s) = 0 THEN TrimLeft(Tail(s)) ELSE s

RECURSIVE TrimRight(_)
TrimRight(s) ==
    IF s # <<>> /\ s[Len(s)] = 0 THEN TrimRight(SubSeq(s, 1, Len(s) - 1)) ELSE s

TrimSpace(s) == TrimRight(TrimLeft(s))

(***************************************************************************)
(* The remote identity endpoint                                            *)
(***************************************************************************)
RemoteProfile(u) ==
    [UserSlug |-> u, UserAvatar |-> "avatar", CountryCode |-> "UZ",
     CountryName |-> "Uzbekistan", RealName |-> "name", Typename |-> "UserProfileNode"]

StatsWithAll == << [Difficulty |-> "Easy", Count |-> 1, Submissions |-> 2],
                   [Difficulty |-> "All", Count |-> 3, Submissions |-> 7] >>

StatsWithoutAll == << [Difficulty |-> "Easy", Count |-> 1, Submissions |-> 2] >>

NoMatchedUser == [none |-> TRUE]

MatchedUserOf(u, stats) ==
    [SubmitStats |-> [ACSubmissionNum |-> stats], Profile |-> RemoteProfile(u)]

OkResponse(u) ==
    [transport |-> "ok", Errors |-> 0, MatchedUser |-> MatchedUserOf(u, StatsWithAll)]

\* What the identity endpoint may answer for username u.
UserResponses(u) ==
    { [transport |-> "fail", Errors |-> 0, MatchedUser |-> NoMatchedUser],
      [transport |-> "ok", Errors |-> 1, MatchedUser |-> MatchedUserOf(u, StatsWithAll)],
      [transport |-> "ok", Errors |-> 0, MatchedUser |-> NoMatchedUser],
      [transport |-> "ok", Errors |-> 0, MatchedUser |-> MatchedUserOf(u, StatsWithoutAll)],
      OkResponse(u) }

NoRecord == [none |-> TRUE]

\* What it answers in the environment at hand: with cfg.identity = "known"
\* the endpoint has the profile of every username it is asked for, and a
\* look-up either reaches it or fails in transport.
IdentityAnswers(u) ==
    IF cfg.identity = "known"
    THEN {[transport |-> "fail", Errors |-> 0, MatchedUser |-> NoMatchedUser], OkResponse(u)}
    ELSE UserResponses(u)

\* doGraphQL: nil, or an error for a transport / status / decode failure.
doGraphQL(resp) == IF resp.transport = "ok" THEN "nil" ELSE "ErrTransport"

\* 1 if the decoded response has len(out.Errors) > 0
ErrorList(resp) == IF resp.transport = "ok" /\ resp.Errors > 0 THEN 1 ELSE 0

\* (mutant) the first entry of the list is taken, whatever its difficulty
FindFirst(stats) == IF stats = <<>> THEN NoRecord ELSE Head(stats)

RECURSIVE FindAll(_)
FindAll(stats) ==
    IF stats = <<>> THEN NoRecord
    ELSE IF Head(stats).Difficulty = "All" THEN Head(stats)
    ELSE FindAll(Tail(stats))

fetchAndConvertUser(name, resp) ==
    LET username == TrimSpace(name)
        acAll == FindAll(resp.MatchedUser.SubmitStats.ACSubmissionNum)
        profile == resp.MatchedUser.Profile
    IN  IF username = <<>> THEN [err |-> "ErrUsernameRequired", user |-> NoRecord]
        ELSE IF doGraphQL(resp) # "nil" THEN [err |-> "ErrFetchFailed", user |-> NoRecord]
        ELSE IF resp.Errors > 0 THEN [err |-> "ErrGraphQL", user |-> NoRecord]
        ELSE IF resp.MatchedUser = NoMatchedUser
             THEN [err |-> "ErrUserNotAvailable", user |-> NoRecord]
        ELSE IF acAll = NoRecord THEN [err |-> "ErrMissingAll", user |-> NoRecord]
        ELSE [err |-> "nil",
              user |-> [Username |-> username,
                        UserSlug |-> profile.UserSlug,
                        UserAvatar |-> profile.UserAvatar,
                        CountryCode |-> profile.CountryCode,
                        CountryName |-> profile.CountryName,
                        RealName |-> profile.RealName,
                        Typename |-> profile.Typename,
                        TotalProblemsSolved |-> acAll.Count,
                        TotalSubmissions |-> acAll.Submissions]]

(***************************************************************************)
(* processUsersConcurrently: channels jobs / results / errors, the worker  *)
(* goroutines, the job feeder, the closer (wg.Wait) and the collecting     *)
(* loop.  Workers are interchangeable, so the pool is kept as counts:      *)
(* a worker is fetching job i, sleeping, exited, or waiting on jobs.       *)
(***************************************************************************)
Runs == 1 .. MaxStarts

NoEnrich ==
    [usernames |-> <<>>, workersArg |-> 0, workers |-> 0, delay |-> 0,
     fed |-> 0, jobsClosed |-> FALSE,
     taken |-> 0, fetching |-> {}, sleeping |-> 0, exited |-> 0,
     results |-> <<>>, errors |-> <<>>, closer |-> "wait",
     resultsNil |-> FALSE, errorsNil |-> FALSE, users |-> <<>>, errs |-> <<>>,
     failed |-> {}, errorLists |-> {}, sent |-> 0, unreachable |-> {}]

\* State right after the channels are made and the goroutines are started.
processUsersConcurrently(usernames, workers, delay) ==
    [NoEnrich EXCEPT !.usernames = usernames,
                     !.workersArg = workers,
                     !.workers = IF workers <= 0 THEN 1 ELSE workers,
                     !.delay = delay]

\* (mutant) one more goroutine is started for every job that is queued
WaitingWorkersPerJob(e) ==
    (e.fed - e.taken) + e.workers - Cardinality(e.fetching) - e.sleeping - e.exited

\* workers blocked in "range jobs"
WaitingWorkers(e) == e.workers - Cardinality(e.fetching) - e.sleeping - e.exited

\* (mutant) the channels hold a single element
ChanCapOne(e) == 1

ChanCap(e) == Len(e.usernames)

\* for username := range jobs  (a job is received, the identity fetch starts)
WorkerTake(r) ==
    /\ run[r].pc = "enrich"
    /\ WaitingWorkers(enr[r]) > 0
    /\ enr[r].taken < enr[r].fed
    /\ enr' = [enr EXCEPT ![r].taken = @ + 1,
                          ![r].fetching = @ \cup {enr[r].taken + 1}]
    /\ UNCHANGED <<sync, syncingPage, hnd, run, tx, userData, staging, status, create, svc, cfg>>

AfterFetch(e) == IF e.delay > 0 THEN [e EXCEPT !.sleeping = @ + 1] ELSE e

\* (mutant) the worker sends on results whatever fetchAndConvertUser returned
WorkerDeliverAlways(e, out) == [e EXCEPT !.results = Append(@, out.user)]

\* fetchAndConvertUser returns; the worker sends on results or on errors
WorkerDeliver(e, out) ==
    IF out.err # "nil"
    THEN [e EXCEPT !.errors = Append(@, out.err)]
    ELSE [e EXCEPT !.results = Append(@, out.user)]

\* (mutant) the request is sent before the username is looked at
RequestsSentAlways(name) == 1

\* outbound requests of one fetchAndConvertUser call: none for a blank username
RequestsSent(name) == IF TrimSpace(name) = <<>> THEN 0 ELSE 1

\* What the call for job i sent and received: sent counts the requests,
\* unreachable holds the jobs whose request failed in transport, errorLists
\* those answered under HTTP 200 with a GraphQL error list.
Answered(e, i, resp) ==
    IF RequestsSent(e.usernames[i]) = 0 THEN e
    ELSE [e EXCEPT !.sent = @ + RequestsSent(e.usernames[i]),
                   !.unreachable = IF doGraphQL(resp) # "nil" THEN @ \cup {i} ELSE @,
                   !.errorLists = IF ErrorList(resp) > 0 THEN @ \cup {i} ELSE @]

\* the fetch of job i is over; failed remembers the jobs whose fetch returned an error
FetchOver(e, i, out) ==
    [e EXCEPT !.fetching = @ \ {i},
              !.failed = IF out.err # "nil" THEN @ \cup {i} ELSE @]

WorkerFetchReturn(r) ==
    /\ run[r].pc = "enrich"
    /\ \E i \in enr[r].fetching :
         \E resp \in IdentityAnswers(TrimSpace(enr[r].usernames[i])) :
            LET out == fetchAndConvertUser(enr[r].usernames[i], resp)
            IN  /\ IF out.err # "nil"
                   THEN Len(enr[r].errors) < ChanCap(enr[r])
                   ELSE Len(enr[r].results) < ChanCap(enr[r])
                /\ enr' = [enr EXCEPT ![r] =
                            AfterFetch(WorkerDeliver(FetchOver(Answered(enr[r], i, resp), i, out), out))]
    /\ UNCHANGED <<sync, syncingPage, hnd, run, tx, userData, staging, status, create, svc, cfg>>

\* time.Sleep(delay) returns
WorkerWake(r) ==
    /\ run[r].pc = "enrich"
    /\ enr[r].sleeping > 0
    /\ enr' = [enr EXCEPT ![r].sleeping = @ - 1]
    /\ UNCHANGED <<sync, syncingPage, hnd, run, tx, userData, staging, status, create, svc, cfg>>

\* range over a closed and drained jobs channel ends; defer wg.Done()
WorkerExit(r) ==
    /\ run[r].pc = "enrich"
    /\ WaitingWorkers(enr[r]) > 0
    /\ enr[r].jobsClosed
    /\ enr[r].taken = enr[r].fed
    /\ enr' = [enr EXCEPT ![r].exited = @ + 1]
    /\ UNCHANGED <<sync, syncingPage, hnd, run, tx, userData, staging, status, create, svc, cfg>>

\* jobs <- username
FeedJob(r) ==
    /\ run[r].pc = "enrich"
    /\ ~enr[r].jobsClosed
    /\ enr[r].fed < Len(enr[r].usernames)
    /\ enr[r].fed - enr[r].taken < ChanCap(enr[r])
    /\ enr' = [enr EXCEPT ![r].fed = @ + 1]
    /\ UNCHANGED <<sync, syncingPage, hnd, run, tx, userData, staging, status, create, svc, cfg>>

\* defer close(jobs)
CloseJobs(r) ==
    /\ run[r].pc = "enrich"
    /\ ~enr[r].jobsClosed
    /\ enr[r].fed = Len(enr[r].usernames)
    /\ enr' = [enr EXCEPT ![r].jobsClosed = TRUE]
    /\ UNCHANGED <<sync, syncingPage, hnd, run, tx, userData, staging, status, create, svc, cfg>>

\* wg.Wait() returns when every worker has called wg.Done()
WaitGroupDone(e) == e.exited = e.workers

\* wg.Wait(); close(results)
CloseResults(r) ==
    /\ run[r].pc = "enrich"
    /\ enr[r].closer = "wait"
    /\ WaitGroupDone(enr[r])
    /\ enr' = [enr EXCEPT ![r].closer = "closedResults"]
    /\ UNCHANGED <<sync, syncingPage, hnd, run, tx, userData, staging, status, create, svc, cfg>>

\* close(errors)
CloseErrors(r) ==
    /\ run[r].pc = "enrich"
    /\ enr[r].closer = "closedResults"
    /\ enr' = [enr EXCEPT ![r].closer = "done"]
    /\ UNCHANGED <<sync, syncingPage, hnd, run, tx, userData, staging, status, create, svc, cfg>>

ResultsClosed(e) == e.closer \in {"closedResults", "done"}
ErrorsClosed(e) == e.closer = "done"

\* (mutant) the loop ends as soon as every username has been answered
CollectorDoneEarly(e) == Len(e.users) + Len(e.errs) = Len(e.usernames)

\* if results == nil && errors == nil { break }
CollectorDone(e) == e.resultsNil /\ e.errorsNil

\* one pass of the collecting loop took e.  After the select the loop
\* condition is tested; when it ends: return users, nil
CollectorStep(r, e) ==
    /\ enr' = [enr EXCEPT ![r] = e]
    /\ run' = IF CollectorDone(e)
              THEN [run EXCEPT ![r].pc = "enriched", ![r].users = e.users,
                               ![r].enrichErr = "nil"]
              ELSE run

\* case user, ok := <-results, ok: users = append(users, user)
CollectResult(r) ==
    /\ run[r].pc = "enrich"
    /\ ~enr[r].resultsNil
    /\ enr[r].results # <<>>
    /\ CollectorStep(r, [enr[r] EXCEPT !.results = Tail(@),
                                       !.users = Append(@, Head(enr[r].results))])
    /\ UNCHANGED <<sync, syncingPage, hnd, tx, userData, staging, status, create, svc, cfg>>

\* case err, ok := <-errors, ok: errs = append(errs, err)
CollectError(r) ==
    /\ run[r].pc = "enrich"
    /\ ~enr[r].errorsNil
    /\ enr[r].errors # <<>>
    /\ CollectorStep(r, [enr[r] EXCEPT !.errors = Tail(@),
                                       !.errs = Append(@, Head(enr[r].errors))])
    /\ UNCHANGED <<sync, syncingPage, hnd, tx, userData, staging, status, create, svc, cfg>>

\* case user, ok := <-results, !ok: results = nil
ResultsClosedSeen(r) ==
    /\ run[r].pc = "enrich"
    /\ ~enr[r].resultsNil
    /\ enr[r].results = <<>>
    /\ ResultsClosed(enr[r])
    /\ CollectorStep(r, [enr[r] EXCEPT !.resultsNil = TRUE])
    /\ UNCHANGED <<sync, syncingPage, hnd, tx, userData, staging, status, create, svc, cfg>>

\* case err, ok := <-errors, !ok: errors = nil
ErrorsClosedSeen(r) ==
    /\ run[r].pc = "enrich"
    /\ ~enr[r].errorsNil
    /\ enr[r].errors = <<>>
    /\ ErrorsClosed(enr[r])
    /\ CollectorStep(r, [enr[r] EXCEPT !.errorsNil = TRUE])
    /\ UNCHANGED <<sync, syncingPage, hnd, tx, userData, staging, status, create, svc, cfg>>

Enrich(r) ==
    \/ FeedJob(r)
    \/ CloseJobs(r)
    \/ WorkerTake(r)
    \/ WorkerFetchReturn(r)
    \/ WorkerWake(r)
    \/ WorkerExit(r)
    \/ CloseResults(r)
    \/ CloseErrors(r)
    \/ CollectResult(r)
    \/ CollectError(r)
    \/ ResultsClosedSeen(r)
    \/ ErrorsClosedSeen(r)

(***************************************************************************)
(* The remote leaderboard endpoint and fetchRankingPage                    *)
(***************************************************************************)
Node(name) == [User |-> [Username |-> name]]

\* the ranking entries the remote holds for page p
RemoteNodes(p) == IF p < 1 \/ p > cfg.totalPages THEN <<>> ELSE cfg.nodes[p]

\* a leaderboard of n pages: odd pages list alice, even pages a blank entry and bob
AlternatingPages(n) ==
    [p \in 1 .. n |-> IF p % 2 = 1 THEN <<Node(Alice)>> ELSE <<Node(Blank), Node(Bob)>>]

RemoteRanking(p) == [TotalPages |-> cfg.totalPages, RankingNodes |-> RemoteNodes(p)]

NoRanking == [TotalPages |-> 0, RankingNodes |-> <<>>]

PageResponses(p) ==
    { [transport |-> "fail", Errors |-> 0, GlobalRanking |-> NoRanking],
      [transport |-> "ok", Errors |-> 1, GlobalRanking |-> RemoteRanking(p)],
      [transport |-> "ok", Errors |-> 0, GlobalRanking |-> RemoteRanking(p)] }

\* (mutant) the error list of a decoded response is not looked at
fetchRankingPageIgnoringErrors(resp) ==
    IF doGraphQL(resp) # "nil" THEN [err |-> doGraphQL(resp), page |-> NoRanking]
    ELSE [err |-> "nil", page |-> resp.GlobalRanking]

fetchRankingPage(resp) ==
    IF doGraphQL(resp) # "nil" THEN [err |-> doGraphQL(resp), page |-> NoRanking]
    ELSE IF resp.Errors > 0 THEN [err |-> "ErrGraphQL", page |-> NoRanking]
    ELSE [err |-> "nil", page |-> resp.GlobalRanking]

(***************************************************************************)
(* extractUsernamesFromPage                                                *)
(***************************************************************************)
RECURSIVE LexLess(_, _)
LexLess(a, b) ==
    IF b = <<>> THEN FALSE
    ELSE IF a = <<>> THEN TRUE
    ELSE IF Head(a) # Head(b) THEN Head(a) < Head(b)
    ELSE LexLess(Tail(a), Tail(b))

RECURSIVE InsertSorted(_, _)
InsertSorted(s, x) ==
    IF s = <<>> THEN <<x>>
    ELSE IF LexLess(x, Head(s)) THEN <<x>> \o s
    ELSE <<Head(s)>> \o InsertSorted(Tail(s), x)

\* (mutant) the usernames are left in first-seen order
SortStringsNone(s) == s

RECURSIVE SortStrings(_)
SortStrings(s) == IF s = <<>> THEN <<>> ELSE InsertSorted(SortStrings(Tail(s)), Head(s))

Range(s) == {s[i] : i \in 1 .. Len(s)}

\* (mutant) the seen map is not consulted
RECURSIVE UniqueTrimmedKeepAll(_, _)
UniqueTrimmedKeepAll(nodes, usernames) ==
    IF nodes = <<>> THEN usernames
    ELSE LET username == TrimSpace(Head(nodes).User.Username)
         IN  IF username = <<>>
             THEN UniqueTrimmedKeepAll(Tail(nodes), usernames)
             ELSE UniqueTrimmedKeepAll(Tail(nodes), Append(usernames, username))

\* (mutant) the seen map is keyed by the username as the page lists it
RECURSIVE UniqueTrimmedRawKey(_, _)
UniqueTrimmedRawKey(nodes, usernames) ==
    IF nodes = <<>> THEN usernames
    ELSE LET username == TrimSpace(Head(nodes).User.Username)
         IN  IF username = <<>> \/ Head(nodes).User.Username \in Range(usernames)
             THEN UniqueTrimmedRawKey(Tail(nodes), usernames)
             ELSE UniqueTrimmedRawKey(Tail(nodes), Append(usernames, username))

RECURSIVE UniqueTrimmed(_, _)
UniqueTrimmed(nodes, usernames) ==
    IF nodes = <<>> THEN usernames
    ELSE LET username == TrimSpace(Head(nodes).User.Username)
         IN  IF username = <<>> \/ username \in Range(usernames)
             THEN UniqueTrimmed(Tail(nodes), usernames)
             ELSE UniqueTrimmed(Tail(nodes), Append(usernames, username))

extractUsernamesFromPage(page) == SortStrings(UniqueTrimmed(page.RankingNodes, <<>>))

(***************************************************************************)
(* State of handlers, runs and transactions                                *)
(***************************************************************************)
NoRun ==
    [pc |-> "none", StartPage |-> 0, Pages |-> 0, Workers |-> 0, Delay |-> 0,
     endPage |-> 0, currentPage |-> 0, users |-> <<>>, enrichErr |-> "none",
     fetchErr |-> "none", err |-> "none", totalProcessedUsers |-> 0, ret |-> "none",
     lastBegun |-> 0, lastFetched |-> 0, lastDone |-> 0, stopAt |-> -1, errorLists |-> 0,
     requested |-> <<>>, slept |-> 0]

NoHandler == [pc |-> "new", Page |-> 0, sawRun |-> FALSE]

NoTx == [pc |-> "idle", began |-> 0, staged |-> {}, merged |-> {}]

NoStatus == [pc |-> "new", IsOn |-> FALSE]

NoCreate ==
    [pc |-> "none", Username |-> <<>>, sent |-> 0, err |-> "none",
     data |-> NoRecord, reply |-> 0]

NoCall ==
    [fn |-> "none", pc |-> "none", arg |-> NoRecord, err |-> "none", row |-> NoRecord,
     calls |-> 0]

Executing(r) == run[r].pc \notin {"none", "returned"}

\* the request context handed to the run is cancelled when the handler returns
CtxDone(r) == hnd[r].pc = "returned"

GetSyncStatus == [IsOn |-> sync, Page |-> syncingPage]

(***************************************************************************)
(* Handler.SyncLeaderboard, Handler.StopSyncing                            *)
(***************************************************************************)
\* (mutant) the options are used as they were given
SyncLeaderboardEntryRaw(opts) ==
    [NoRun EXCEPT !.pc = "fetchFirst",
                  !.StartPage = opts.StartPage,
                  !.Pages = opts.Pages,
                  !.Workers = opts.Workers,
                  !.Delay = opts.Delay,
                  !.lastFetched = opts.StartPage,
                  !.requested = <<opts.StartPage>>]

\* SyncLeaderboard up to its first request: the options are normalised and
\* the start page is requested.
SyncLeaderboardEntry(opts) ==
    LET start == IF opts.StartPage < 1 THEN 1 ELSE opts.StartPage
    IN  [NoRun EXCEPT !.pc = "fetchFirst",
                      !.StartPage = start,
                      !.Pages = opts.Pages,
                      !.Workers = IF opts.Workers <= 0 THEN DefaultWorkers ELSE opts.Workers,
                      !.Delay = IF opts.Delay <= 0 THEN DefaultDelay ELSE opts.Delay,
                      !.lastFetched = start,
                      !.requested = <<start>>]

\* ShouldBindJSON, then stat := GetSyncStatus(); if stat.IsOn: 400
StartReceive(h) ==
    /\ hnd[h].pc = "new"
    /\ h <= cfg.starts
    /\ h > 1 => hnd[h - 1].pc # "new"
    /\ \E bound \in BOOLEAN, body \in cfg.pageInputs :
         hnd' = [hnd EXCEPT ![h] =
                   IF ~bound THEN [@ EXCEPT !.pc = "badRequest"]
                   ELSE IF GetSyncStatus.IsOn
                        THEN [@ EXCEPT !.pc = "rejected", !.Page = body,
                                       !.sawRun = \E r \in Runs : Executing(r)]
                        ELSE [@ EXCEPT !.pc = "checked", !.Page = body,
                                       !.sawRun = \E r \in Runs : Executing(r)]]
    /\ UNCHANGED <<sync, syncingPage, run, enr, tx, userData, staging, status, create, svc, cfg>>

\* h.srv.SyncOn()
SyncOn(h) ==
    /\ hnd[h].pc = "checked"
    /\ sync' = TRUE
    /\ hnd' = [hnd EXCEPT ![h].pc = "on"]
    /\ UNCHANGED <<syncingPage, run, enr, tx, userData, staging, status, create, svc, cfg>>

\* the call of SyncLeaderboard(ctx, opts): the goroutine exists, nothing of
\* its body has run
SyncLeaderboardCalled(opts) ==
    [NoRun EXCEPT !.pc = "started",
                  !.StartPage = opts.StartPage,
                  !.Pages = opts.Pages,
                  !.Workers = opts.Workers,
                  !.Delay = opts.Delay]

\* go h.srv.SyncLeaderboard(c.Request.Context(), SyncOptions{StartPage: req.Page, Workers: 4})
StartSpawn(h) ==
    /\ hnd[h].pc = "on"
    /\ hnd' = [hnd EXCEPT ![h].pc = "spawned"]
    /\ run' = [run EXCEPT ![h] = SyncLeaderboardCalled(
                  [StartPage |-> hnd[h].Page, Pages |-> 0,
                   Workers |-> HandlerWorkers, Delay |-> 0])]
    /\ UNCHANGED <<sync, syncingPage, enr, tx, userData, staging, status, create, svc, cfg>>

\* the goroutine is scheduled: the defaults are set and
\* s.fetchRankingPage(opts.StartPage) sends its request
SyncLeaderboardBegin(r) ==
    /\ run[r].pc = "started"
    /\ run' = [run EXCEPT ![r] =
                 [SyncLeaderboardEntry(
                      [StartPage |-> run[r].StartPage, Pages |-> run[r].Pages,
                       Workers |-> run[r].Workers, Delay |-> run[r].Delay])
                  EXCEPT !.stopAt = run[r].stopAt]]
    /\ UNCHANGED <<sync, syncingPage, hnd, enr, tx, userData, staging, status, create, svc, cfg>>

\* c.JSON(200, "syncing started"); the handler returns
StartReturn(h) ==
    /\ hnd[h].pc = "spawned"
    /\ hnd' = [hnd EXCEPT ![h].pc = "returned"]
    /\ UNCHANGED <<sync, syncingPage, run, enr, tx, userData, staging, status, create, svc, cfg>>

\* Handler.StopSyncing: h.srv.SyncOff()
SyncOff ==
    /\ sync' = FALSE
    /\ run' = [r \in Runs |->
                 IF Executing(r) /\ run[r].stopAt = -1
                 THEN [run[r] EXCEPT !.stopAt = run[r].lastBegun]
                 ELSE run[r]]
    /\ UNCHANGED <<syncingPage, hnd, enr, tx, userData, staging, status, create, svc, cfg>>

\* Handler.GetSyncingStatus: GetSyncStatus() reads s.sync ...
StatusReadIsOn ==
    /\ status.pc = "new"
    /\ status' = [pc |-> "readPage", IsOn |-> sync]
    /\ UNCHANGED <<sync, syncingPage, hnd, run, enr, tx, userData, staging, create, svc, cfg>>

\* ... then s.syncingPage; the reply goes out with c.JSON(200, ...)
StatusReply == [IsOn |-> status.IsOn, Page |-> syncingPage]

StatusReadPage ==
    /\ status.pc = "readPage"
    /\ status' = NoStatus
    /\ UNCHANGED <<sync, syncingPage, hnd, run, enr, tx, userData, staging, create, svc, cfg>>

GetSyncingStatus == StatusReadIsOn \/ StatusReadPage

(***************************************************************************)
(* userService.SyncLeaderboard                                             *)
(***************************************************************************)
\* (mutant) the end page is taken one page too far
EndPagePlusOne(totalPages, startPage, pages) ==
    IF pages > 0 /\ startPage + pages < totalPages
    THEN startPage + pages
    ELSE totalPages

\* endPage := totalPages; if opts.Pages > 0 and StartPage + Pages - 1 < endPage: that
EndPage(totalPages, startPage, pages) ==
    IF pages > 0 /\ startPage + pages - 1 < totalPages
    THEN startPage + pages - 1
    ELSE totalPages

\* usernames := extractUsernamesFromPage(pageResp); processUsersConcurrently(...)
StartEnrich(r, page) ==
    enr' = [enr EXCEPT ![r] = processUsersConcurrently(
               extractUsernamesFromPage(page), run[r].Workers, run[r].Delay)]

\* firstPage, err := s.fetchRankingPage(opts.StartPage) returns
FirstPageReturn(r) ==
    /\ run[r].pc = "fetchFirst"
    /\ \E resp \in PageResponses(run[r].StartPage) :
         LET out == fetchRankingPage(resp)
         IN  run' = [run EXCEPT ![r] =
                       IF out.err # "nil"
                       THEN [@ EXCEPT !.pc = "returned", !.fetchErr = out.err,
                                      !.errorLists = @ + ErrorList(resp),
                                      !.ret = "ErrFetchFirstPage"]
                       ELSE [@ EXCEPT !.pc = "loop",
                                      !.fetchErr = "nil",
                                      !.errorLists = @ + ErrorList(resp),
                                      !.endPage = EndPage(out.page.TotalPages,
                                                          run[r].StartPage, run[r].Pages),
                                      !.currentPage = run[r].StartPage]]
    /\ UNCHANGED <<sync, syncingPage, hnd, enr, tx, userData, staging, status, create, svc, cfg>>

\* (mutant) the loop looks at the page range only
LoopConditionPagesOnly(r) == run[r].currentPage <= run[r].endPage

\* for ...; s.sync && currentPage <= endPage; ...
LoopCondition(r) == sync /\ run[r].currentPage <= run[r].endPage

\* (mutant) a run whose flag was cleared waits at the loop head for the flag
LoopCheckWait(r) ==
    /\ run[r].pc = "loop"
    /\ run' = [run EXCEPT ![r] =
                 IF LoopCondition(r)
                 THEN [@ EXCEPT !.pc = "iter", !.lastBegun = run[r].currentPage]
                 ELSE IF run[r].currentPage <= run[r].endPage THEN @
                 ELSE [@ EXCEPT !.pc = "returned", !.ret = "nil"]]
    /\ UNCHANGED <<sync, syncingPage, hnd, enr, tx, userData, staging, status, create, svc, cfg>>

LoopCheck(r) ==
    /\ run[r].pc = "loop"
    /\ run' = [run EXCEPT ![r] =
                 IF LoopCondition(r)
                 THEN [@ EXCEPT !.pc = "iter", !.lastBegun = run[r].currentPage]
                 ELSE [@ EXCEPT !.pc = "returned", !.ret = "nil"]]
    /\ UNCHANGED <<sync, syncingPage, hnd, enr, tx, userData, staging, status, create, svc, cfg>>

\* (mutant) the start page is requested again on the first iteration
BeginPageRefetch(r) ==
    /\ run[r].pc = "iter"
    /\ syncingPage' = run[r].currentPage
    /\ run' = [run EXCEPT ![r].pc = "fetchPage",
                          ![r].lastFetched = run[r].currentPage,
                          ![r].requested = Append(@, run[r].currentPage),
                          ![r].slept = 0]
    /\ enr' = enr
    /\ UNCHANGED <<sync, hnd, tx, userData, staging, status, create, svc, cfg>>

\* s.syncingPage = currentPage; then the start page is reused or the page is requested
BeginPage(r) ==
    /\ run[r].pc = "iter"
    /\ syncingPage' = run[r].currentPage
    /\ IF run[r].currentPage = run[r].StartPage
       THEN /\ run' = [run EXCEPT ![r].pc = "enrich"]
            /\ StartEnrich(r, RemoteRanking(run[r].StartPage))
       ELSE /\ run' = [run EXCEPT ![r].pc = "fetchPage",
                                  ![r].lastFetched = run[r].currentPage,
                                  ![r].requested = Append(@, run[r].currentPage),
                                  ![r].slept = 0]
            /\ enr' = enr
    /\ UNCHANGED <<sync, hnd, tx, userData, staging, status, create, svc, cfg>>

\* (mutant) a page that cannot be fetched ends the run with an error
PageReturnAbort(r) ==
    /\ run[r].pc = "fetchPage"
    /\ \E resp \in PageResponses(run[r].currentPage) :
         LET out == fetchRankingPage(resp)
         IN  IF out.err # "nil"
             THEN /\ run' = [run EXCEPT ![r].pc = "returned", ![r].fetchErr = out.err,
                                        ![r].errorLists = @ + ErrorList(resp),
                                        ![r].ret = "ErrFetchPage"]
                  /\ enr' = enr
             ELSE /\ run' = [run EXCEPT ![r].pc = "enrich", ![r].fetchErr = "nil",
                                        ![r].errorLists = @ + ErrorList(resp)]
                  /\ StartEnrich(r, out.page)
    /\ UNCHANGED <<sync, syncingPage, hnd, tx, userData, staging, status, create, svc, cfg>>

\* (mutant) a page that cannot be fetched is requested again
PageReturnRetry(r) ==
    /\ run[r].pc = "fetchPage"
    /\ \E resp \in PageResponses(run[r].currentPage) :
         LET out == fetchRankingPage(resp)
         IN  IF out.err # "nil"
             THEN /\ run' = [run EXCEPT ![r].pc = "loop", ![r].fetchErr = out.err,
                                        ![r].errorLists = @ + ErrorList(resp)]
                  /\ enr' = enr
             ELSE /\ run' = [run EXCEPT ![r].pc = "enrich", ![r].fetchErr = "nil",
                                        ![r].errorLists = @ + ErrorList(resp)]
                  /\ StartEnrich(r, out.page)
    /\ UNCHANGED <<sync, syncingPage, hnd, tx, userData, staging, status, create, svc, cfg>>

\* pageResp, err = s.fetchRankingPage(currentPage) returns; on error: continue
PageReturn(r) ==
    /\ run[r].pc = "fetchPage"
    /\ \E resp \in PageResponses(run[r].currentPage) :
         LET out == fetchRankingPage(resp)
         IN  IF out.err # "nil"
             THEN /\ run' = [run EXCEPT ![r].pc = "loop", ![r].currentPage = @ + 1,
                                        ![r].fetchErr = out.err,
                                        ![r].errorLists = @ + ErrorList(resp),
                                        ![r].lastDone = run[r].currentPage]
                  /\ enr' = enr
             ELSE /\ run' = [run EXCEPT ![r].pc = "enrich", ![r].fetchErr = "nil",
                                        ![r].errorLists = @ + ErrorList(resp)]
                  /\ StartEnrich(r, out.page)
    /\ UNCHANGED <<sync, syncingPage, hnd, tx, userData, staging, status, create, svc, cfg>>

\* if currentPage < endPage { time.Sleep(opts.Delay) }; currentPage++
EndOfIteration(rn) ==
    IF rn.currentPage < rn.endPage
    THEN [rn EXCEPT !.pc = "sleep", !.users = <<>>, !.lastDone = rn.currentPage]
    ELSE [rn EXCEPT !.pc = "loop", !.currentPage = @ + 1, !.users = <<>>,
                    !.lastDone = rn.currentPage]

\* (mutant) the upsert is started and the loop goes on without waiting for it
AfterEnrichAsync(r) ==
    /\ run[r].pc = "enriched"
    /\ run' = [run EXCEPT ![r] = EndOfIteration(@)]
    /\ tx' = IF Len(run[r].users) > 0
             THEN [tx EXCEPT ![r] = [NoTx EXCEPT !.pc = "begin"]]
             ELSE tx
    /\ enr' = [enr EXCEPT ![r] = NoEnrich]
    /\ UNCHANGED <<sync, syncingPage, hnd, userData, staging, status, create, svc, cfg>>

\* (mutant) UpsertUserData is called whatever the size of the batch
AfterEnrichAlways(r) ==
    /\ run[r].pc = "enriched"
    /\ run' = [run EXCEPT ![r].pc = "upsert"]
    /\ tx' = [tx EXCEPT ![r] = [NoTx EXCEPT !.pc = "begin"]]
    /\ enr' = [enr EXCEPT ![r] = NoEnrich]
    /\ UNCHANGED <<sync, syncingPage, hnd, userData, staging, status, create, svc, cfg>>

\* if len(users) > 0 { err := s.dbStorage.UpsertUserData(ctx, users) ... }
AfterEnrich(r) ==
    /\ run[r].pc = "enriched"
    /\ IF Len(run[r].users) > 0
       THEN /\ run' = [run EXCEPT ![r].pc = "upsert"]
            /\ tx' = [tx EXCEPT ![r] = [NoTx EXCEPT !.pc = "begin"]]
       ELSE /\ run' = [run EXCEPT ![r] = EndOfIteration(@)]
            /\ tx' = tx
    /\ enr' = [enr EXCEPT ![r] = NoEnrich]
    /\ UNCHANGED <<sync, syncingPage, hnd, userData, staging, status, create, svc, cfg>>

\* time.Sleep(opts.Delay) returns; currentPage++
SleepReturn(r) ==
    /\ run[r].pc = "sleep"
    /\ run' = [run EXCEPT ![r].pc = "loop", ![r].currentPage = @ + 1,
                          ![r].slept = @ + 1]
    /\ UNCHANGED <<sync, syncingPage, hnd, enr, tx, userData, staging, status, create, svc, cfg>>

(***************************************************************************)
(* Storage.UpsertUserData: BeginTx, TRUNCATE staging, COPY, merge, Commit. *)
(* tx[r].pc names the call that is in flight.  Every call may fail; it     *)
(* does fail once the context of the run is cancelled.  TRUNCATE takes the *)
(* table lock of the staging table until the transaction ends.             *)
(***************************************************************************)
userDataTable == "user_data"

stagingUserDataTable == "user_data_staging"

\* a database that holds the two relations under the names storage.go uses
DeployedRelations == {userDataTable, stagingUserDataTable}

\* the relations that migration 000002 creates
MigratedRelations == {"staging_user_data", "user_data"}

HoldsLock(r) == tx[r].pc \in {"copy", "merge", "commit"}

Usernames(records) == {records[i].Username : i \in 1 .. Len(records)}

\* A row of user_data: the columns of the record and the two timestamps.
\* Time is logical: NOW() is later than every time stamped on a stored row.
Stamps == {"created_at", "updated_at"}

Columns(row) == [f \in DOMAIN row \ Stamps |-> row[f]]

\* the latest time on record: stamped on a committed row or taken by a
\* transaction that is still open
Latest(table) ==
    LET times == {row.created_at : row \in table} \cup {row.updated_at : row \in table}
                   \cup {tx[r].began : r \in Runs}
    IN  CHOOSE t \in times : \A u \in times : u <= t

\* the clock of the database server at this step
Now(table) == Latest(table) + 1

\* a new row: created_at and updated_at take their default NOW()
InsertRow(rec, now) == rec @@ [created_at |-> now, updated_at |-> now]

\* DO UPDATE SET <every column of the record>; trigger set_updated_at
UpdateRow(row, rec, now) == rec @@ [created_at |-> row.created_at, updated_at |-> now]

\* (mutant) user_data is replaced by the rows of the staging table
MergeRowsReplace(table, staged, now) == {InsertRow(s, now) : s \in staged}

\* (mutant) ON CONFLICT (username) DO NOTHING
MergeRowsDoNothing(table, staged, now) ==
    table \cup {InsertRow(s, now) :
                  s \in {x \in staged : \A row \in table : x.Username # row.Username}}

\* INSERT INTO user_data ... SELECT ... FROM staging ON CONFLICT (username) DO UPDATE SET ...
\* now is NOW() inside the transaction: the time at which the transaction began
MergeRows(table, staged, now) ==
    {row \in table : \A s \in staged : s.Username # row.Username}
    \cup {IF \E row \in table : row.Username = s.Username
          THEN UpdateRow(CHOOSE row \in table : row.Username = s.Username, s, now)
          ELSE InsertRow(s, now) : s \in staged}

\* (mutant) a batch whose upsert failed is counted as processed
UpsertFailsCounted(r) ==
    /\ tx' = [tx EXCEPT ![r] = NoTx]
    /\ run' = [run EXCEPT ![r] = EndOfIteration(
                  [@ EXCEPT !.err = IF CtxDone(r) THEN "ErrContextCanceled" ELSE "ErrDB",
                            !.totalProcessedUsers = @ + Len(run[r].users)])]
    /\ UNCHANGED <<userData, staging>>

\* the error path: defer tx.Rollback(); the error is logged by SyncLeaderboard
UpsertFails(r) ==
    /\ tx' = [tx EXCEPT ![r] = NoTx]
    /\ run' = [run EXCEPT ![r] = EndOfIteration(
                  [@ EXCEPT !.err = IF CtxDone(r) THEN "ErrContextCanceled" ELSE "ErrDB"])]
    /\ UNCHANGED <<userData, staging>>

UpsertFail(r) ==
    /\ run[r].pc = "upsert"
    /\ UpsertFails(r)
    /\ UNCHANGED <<sync, syncingPage, hnd, enr, status, create, svc, cfg>>

BeginTx(r) ==
    /\ run[r].pc = "upsert"
    /\ tx[r].pc = "begin"
    /\ ~CtxDone(r)
    /\ tx' = [tx EXCEPT ![r].pc = "truncate", ![r].began = Now(userData)]
    /\ UNCHANGED <<sync, syncingPage, hnd, run, enr, userData, staging, status, create, svc, cfg>>

Truncate(r) ==
    /\ run[r].pc = "upsert"
    /\ tx[r].pc = "truncate"
    /\ ~CtxDone(r)
    /\ stagingUserDataTable \in cfg.relations
    /\ \A o \in Runs : ~HoldsLock(o)
    /\ tx' = [tx EXCEPT ![r].pc = "copy", ![r].staged = {}]
    /\ UNCHANGED <<sync, syncingPage, hnd, run, enr, userData, staging, status, create, svc, cfg>>

CopyIn(r) ==
    /\ run[r].pc = "upsert"
    /\ tx[r].pc = "copy"
    /\ ~CtxDone(r)
    /\ Cardinality(Usernames(run[r].users)) = Len(run[r].users)
    /\ tx' = [tx EXCEPT ![r].pc = "merge", ![r].staged = Range(run[r].users)]
    /\ UNCHANGED <<sync, syncingPage, hnd, run, enr, userData, staging, status, create, svc, cfg>>

\* (mutant) the merge statement runs outside the transaction
MergeAutocommit(r) ==
    /\ run[r].pc = "upsert"
    /\ tx[r].pc = "merge"
    /\ ~CtxDone(r)
    /\ tx' = [tx EXCEPT ![r].pc = "commit", ![r].merged = MergeRows(userData, tx[r].staged, tx[r].began)]
    /\ userData' = MergeRows(userData, tx[r].staged, tx[r].began)
    /\ UNCHANGED <<sync, syncingPage, hnd, run, enr, staging, status, create, svc, cfg>>

Merge(r) ==
    /\ run[r].pc = "upsert"
    /\ tx[r].pc = "merge"
    /\ ~CtxDone(r)
    /\ {userDataTable, stagingUserDataTable} \subseteq cfg.relations
    /\ tx' = [tx EXCEPT ![r].pc = "commit", ![r].merged = MergeRows(userData, tx[r].staged, tx[r].began)]
    /\ UNCHANGED <<sync, syncingPage, hnd, run, enr, userData, staging, status, create, svc, cfg>>

\* tx.Commit() succeeds; totalProcessedUsers += len(users)
Commit(r) ==
    /\ run[r].pc = "upsert"
    /\ tx[r].pc = "commit"
    /\ ~CtxDone(r)
    /\ userData' = tx[r].merged
    /\ staging' = tx[r].staged
    /\ tx' = [tx EXCEPT ![r] = NoTx]
    /\ run' = [run EXCEPT ![r] = EndOfIteration(
                  [@ EXCEPT !.err = "nil",
                            !.totalProcessedUsers = @ + Len(run[r].users)])]
    /\ UNCHANGED <<sync, syncingPage, hnd, enr, status, create, svc, cfg>>

UpsertUserData(r) ==
    \/ BeginTx(r)
    \/ Truncate(r)
    \/ CopyIn(r)
    \/ Merge(r)
    \/ Commit(r)
    \/ UpsertFail(r)

(***************************************************************************)
(* Handler.CreateUser and userService.CreateUser.  cfg.request is the body *)
(* the client sends, cfg.remote what the identity endpoint answers.        *)
(***************************************************************************)
\* (mutant) every failure is an internal server error
CreateReplyInternal(err) == 500

\* errors.Is(err, ErrUserNotAvailable): 404, any other error: 500
CreateReply(err) == IF err = "ErrUserNotAvailable" THEN 404 ELSE 500

\* ShouldBindJSON fails or len(req.Username) == 0: 400 "bad request"
CreateReceive ==
    /\ create.pc = "new"
    /\ create' = IF ~cfg.request.bound \/ Len(cfg.request.Username) = 0
                 THEN [create EXCEPT !.pc = "replied", !.reply = 400]
                 ELSE [create EXCEPT !.pc = "fetch", !.Username = cfg.request.Username]
    /\ UNCHANGED <<sync, syncingPage, hnd, run, enr, tx, userData, staging, status, svc, cfg>>

\* data, err := s.fetchAndConvertUser(req.Username); arg is built from data
CreateFetch ==
    /\ create.pc = "fetch"
    /\ LET out == fetchAndConvertUser(create.Username, cfg.remote)
           sent == create.sent + RequestsSent(create.Username)
       IN  create' =
             IF out.err # "nil"
             THEN [create EXCEPT !.pc = "replied", !.sent = sent, !.err = out.err,
                                 !.reply = CreateReply(out.err)]
             ELSE IF TrimSpace(out.user.Username) = <<>>
             THEN [create EXCEPT !.pc = "replied", !.sent = sent,
                                 !.err = "ErrUsernameRequired",
                                 !.reply = CreateReply("ErrUsernameRequired")]
             ELSE [create EXCEPT !.pc = "insert", !.sent = sent, !.err = "nil",
                                 !.data = out.user]
    /\ UNCHANGED <<sync, syncingPage, hnd, run, enr, tx, userData, staging, status, svc, cfg>>

\* u, err := s.storage.CreateUser(ctx, *arg): INSERT INTO user_data ... RETURNING *
\* fails on a username that is stored already, on a cancelled context, on a
\* database error; otherwise the row is stored and the reply is 201.
CreateInsert ==
    /\ create.pc = "insert"
    /\ \/ /\ create' = [create EXCEPT !.pc = "replied", !.err = "ErrDB",
                                       !.reply = CreateReply("ErrDB")]
          /\ userData' = userData
       \/ /\ userDataTable \in cfg.relations
          /\ \A row \in userData : row.Username # create.data.Username
          /\ userData' = userData \cup {InsertRow(create.data, Now(userData))}
          /\ create' = [create EXCEPT !.pc = "replied", !.reply = 201]
    /\ UNCHANGED <<sync, syncingPage, hnd, run, enr, tx, staging, status, svc, cfg>>

(***************************************************************************)
(* userService.DeleteUserByUsername and userService.UpdateUserByUsername:  *)
(* exported by the service, bound to no route.  svc.arg holds the          *)
(* parameters that are not NULL.                                           *)
(***************************************************************************)
NameArgs == {Alice, Bob, PaddedAlice, Blank}

UpdateArgs ==
    UNION { {[Username |-> u],
             [Username |-> u, TotalProblemsSolved |-> 4],
             [Username |-> u, TotalProblemsSolved |-> 4, CountryCode |-> "US"]} :
            u \in NameArgs }

\* username = strings.TrimSpace(username); if username == "": "username is required"
DeleteUserByUsernameCall ==
    /\ svc.pc \in {"none", "returned"}
    /\ svc.calls < MaxStoreCalls
    /\ \E name \in NameArgs :
         LET username == TrimSpace(name)
         IN  svc' = IF username = <<>>
                    THEN [NoCall EXCEPT !.fn = "DeleteUserByUsername", !.pc = "returned",
                                        !.err = "ErrUsernameRequired",
                                        !.calls = svc.calls + 1]
                    ELSE [NoCall EXCEPT !.fn = "DeleteUserByUsername", !.pc = "exec",
                                        !.arg = [Username |-> username],
                                        !.calls = svc.calls + 1]
    /\ UNCHANGED <<sync, syncingPage, hnd, run, enr, tx, userData, staging, status, create, cfg>>

\* DELETE FROM user_data WHERE username = $1 (:exec): an error of the
\* database is returned, a username that has no row is not an error
DeleteUserByUsernameExec ==
    /\ svc.fn = "DeleteUserByUsername"
    /\ svc.pc = "exec"
    /\ \/ /\ svc' = [svc EXCEPT !.pc = "returned", !.err = "ErrDB"]
          /\ userData' = userData
       \/ /\ userDataTable \in cfg.relations
          /\ userData' = {row \in userData : row.Username # svc.arg.Username}
          /\ svc' = [svc EXCEPT !.pc = "returned", !.err = "nil"]
    /\ UNCHANGED <<sync, syncingPage, hnd, run, enr, tx, staging, status, create, cfg>>

\* if strings.TrimSpace(arg.Username) == "": "username is required"
UpdateUserByUsernameCall ==
    /\ svc.pc \in {"none", "returned"}
    /\ svc.calls < MaxStoreCalls
    /\ \E arg \in UpdateArgs :
         svc' = IF TrimSpace(arg.Username) = <<>>
                THEN [NoCall EXCEPT !.fn = "UpdateUserByUsername", !.pc = "returned",
                                    !.err = "ErrUsernameRequired", !.calls = svc.calls + 1]
                ELSE [NoCall EXCEPT !.fn = "UpdateUserByUsername", !.pc = "exec",
                                    !.arg = arg, !.calls = svc.calls + 1]
    /\ UNCHANGED <<sync, syncingPage, hnd, run, enr, tx, userData, staging, status, create, cfg>>

\* SET column = COALESCE($n, column): a parameter that is not NULL replaces the column
Coalesce(arg, row) ==
    [f \in DOMAIN row |-> IF f \in DOMAIN arg \ {"Username"} THEN arg[f] ELSE row[f]]

\* UPDATE user_data SET ... WHERE username = $1 RETURNING * (:one): the
\* username is compared as it was given; no row: sql.ErrNoRows; the trigger
\* set_updated_at stamps the row
UpdateUserByUsernameExec ==
    /\ svc.fn = "UpdateUserByUsername"
    /\ svc.pc = "exec"
    /\ \/ /\ svc' = [svc EXCEPT !.pc = "returned", !.err = "ErrDB"]
          /\ userData' = userData
       \/ /\ userDataTable \in cfg.relations
          /\ IF \E row \in userData : row.Username = svc.arg.Username
             THEN LET old == CHOOSE row \in userData : row.Username = svc.arg.Username
                      new == [Coalesce(svc.arg, old) EXCEPT !.updated_at = Now(userData)]
                  IN  /\ userData' = (userData \ {old}) \cup {new}
                      /\ svc' = [svc EXCEPT !.pc = "returned", !.err = "nil", !.row = new]
             ELSE /\ userData' = userData
                  /\ svc' = [svc EXCEPT !.pc = "returned", !.err = "ErrNoRows"]
    /\ UNCHANGED <<sync, syncingPage, hnd, run, enr, tx, staging, status, create, cfg>>

(***************************************************************************)
(* The service behind its HTTP endpoints                                   *)
(***************************************************************************)
SysInit(c) ==
    /\ sync = FALSE
    /\ syncingPage = 0
    /\ hnd = [h \in Runs |-> NoHandler]
    /\ run = [r \in Runs |-> NoRun]
    /\ enr = [r \in Runs |-> NoEnrich]
    /\ tx = [r \in Runs |-> NoTx]
    /\ userData = {}
    /\ staging = {}
    /\ status = NoStatus
    /\ create = NoCreate
    /\ svc = NoCall
    /\ cfg = c

\* two start-run requests for page 1 of a one-page leaderboard race with
\* stop-run and get-status requests; the identity endpoint knows every username
Init == SysInit([relations |-> DeployedRelations, identity |-> "known", starts |-> MaxStarts,
                 totalPages |-> 1, pageInputs |-> {1}, nodes |-> AlternatingPages(1)])

\* with a single page no other page is requested and no politeness sleep is taken
Next ==
    \/ \E h \in Runs : StartReceive(h) \/ SyncOn(h) \/ StartSpawn(h) \/ StartReturn(h)
    \/ SyncOff
    \/ GetSyncingStatus
    \/ \E r \in Runs :
         \/ SyncLeaderboardBegin(r)
         \/ FirstPageReturn(r)
         \/ LoopCheck(r)
         \/ BeginPage(r)
         \/ Enrich(r)
         \/ AfterEnrich(r)
         \/ UpsertUserData(r)

Spec == Init /\ [][Next]_vars

Control ==
    \/ \E h \in Runs : StartReceive(h) \/ SyncOn(h) \/ StartSpawn(h) \/ StartReturn(h)
    \/ SyncOff
    \/ GetSyncingStatus
    \/ \E r \in Runs :
         \/ SyncLeaderboardBegin(r)
         \/ FirstPageReturn(r)
         \/ LoopCheck(r)
         \/ BeginPage(r)
         \/ PageReturn(r)
         \/ AfterEnrich(r)
         \/ UpsertUserData(r)
         \/ SleepReturn(r)

NextRun == Control \/ \E r \in Runs : Enrich(r)

\* a single start-run request against a five-page leaderboard
InitRun == SysInit([relations |-> DeployedRelations, identity |-> "any", starts |-> 1, totalPages |-> RunPages, pageInputs |-> {1},
                    nodes |-> AlternatingPages(RunPages)])

SpecRun == InitRun /\ [][NextRun]_vars

\* two start-run requests for page 1 of a leaderboard of several pages and
\* get-status requests, no stop-run request; the identity endpoint knows
\* every username
InitOverlap == SysInit([relations |-> DeployedRelations, identity |-> "known",
                        starts |-> MaxStarts, totalPages |-> SysPages, pageInputs |-> {1},
                        nodes |-> AlternatingPages(SysPages)])

NextOverlap ==
    \/ \E h \in Runs : StartReceive(h) \/ SyncOn(h) \/ StartSpawn(h) \/ StartReturn(h)
    \/ GetSyncingStatus
    \/ \E r \in Runs :
         \/ SyncLeaderboardBegin(r)
         \/ FirstPageReturn(r)
         \/ LoopCheck(r)
         \/ BeginPage(r)
         \/ PageReturn(r)
         \/ Enrich(r)
         \/ AfterEnrich(r)
         \/ UpsertUserData(r)
         \/ SleepReturn(r)

SpecOverlap == InitOverlap /\ [][NextOverlap]_vars

\* the steps of the SyncLeaderboard goroutines and of the goroutines they start
RunStep ==
    \E r \in Runs :
        \/ SyncLeaderboardBegin(r)
        \/ FirstPageReturn(r)
        \/ LoopCheck(r)
        \/ BeginPage(r)
        \/ PageReturn(r)
        \/ Enrich(r)
        \/ AfterEnrich(r)
        \/ UpsertUserData(r)
        \/ SleepReturn(r)

\* the same request when every goroutine that can take a step is scheduled
\* and every fetch, sleep and database call in flight returns
LiveRun == SpecRun /\ WF_vars(RunStep)

(***************************************************************************)
(* One call of processUsersConcurrently on arbitrary arguments             *)
(***************************************************************************)
NameInputs == {Alice, Bob, Blank, <<>>}

WorkerInputs == {-1, 0, 1, 2, 3}

DelayInputs == {0, 800}

SeqsUpTo(S, n) == UNION {[1 .. k -> S] : k \in 0 .. n}

InitEnrich ==
    /\ sync = FALSE
    /\ syncingPage = 0
    /\ hnd = [h \in Runs |-> NoHandler]
    /\ tx = [r \in Runs |-> NoTx]
    /\ userData = {}
    /\ staging = {}
    /\ status = NoStatus
    /\ create = NoCreate
    /\ svc = NoCall
    /\ cfg = [relations |-> DeployedRelations, identity |-> "any", starts |-> 0, totalPages |-> 0, pageInputs |-> {}]
    /\ \E names \in SeqsUpTo(NameInputs, MaxNames), w \in WorkerInputs, d \in DelayInputs :
         /\ run = [r \in Runs |-> IF r = 1 THEN [NoRun EXCEPT !.pc = "enrich"] ELSE NoRun]
         /\ enr = [r \in Runs |-> IF r = 1 THEN processUsersConcurrently(names, w, d)
                                  ELSE NoEnrich]

NextEnrich == Enrich(1)

SpecEnrich == InitEnrich /\ [][NextEnrich]_vars

\* the same call when every goroutine that can take a step is scheduled and
\* every identity fetch and sleep in flight returns
LiveEnrich == SpecEnrich /\ WF_vars(NextEnrich)

(***************************************************************************)
(* A single start-run request against a leaderboard of one page holding    *)
(* arbitrary ranking entries                                               *)
(***************************************************************************)
EntryInputs == {Alice, Bob, Blank, PaddedAlice}

NodesOf(names) == [i \in 1 .. Len(names) |-> Node(names[i])]

InitPage ==
    \E names \in SeqsUpTo(EntryInputs, MaxEntries) :
        SysInit([relations |-> DeployedRelations, identity |-> "any", starts |-> 1, totalPages |-> 1, pageInputs |-> {1},
                 nodes |-> [p \in {1} |-> NodesOf(names)]])

\* with a single page no other page is requested and no politeness sleep is taken
NextPage ==
    \/ \E h \in Runs : StartReceive(h) \/ SyncOn(h) \/ StartSpawn(h) \/ StartReturn(h)
    \/ SyncOff
    \/ GetSyncingStatus
    \/ \E r \in Runs :
         \/ SyncLeaderboardBegin(r)
         \/ FirstPageReturn(r)
         \/ LoopCheck(r)
         \/ BeginPage(r)
         \/ Enrich(r)
         \/ AfterEnrich(r)
         \/ UpsertUserData(r)

SpecPage == InitPage /\ [][NextPage]_vars

\* the same request followed up to the extraction of the page's usernames
NextExtract ==
    \/ \E h \in Runs : StartReceive(h) \/ SyncOn(h) \/ StartSpawn(h) \/ StartReturn(h)
    \/ SyncOff
    \/ \E r \in Runs :
         SyncLeaderboardBegin(r) \/ FirstPageReturn(r) \/ LoopCheck(r) \/ BeginPage(r)

SpecExtract == InitPage /\ [][NextExtract]_vars

\* the same request followed through enrichment and the upsert
NextBatch ==
    \/ \E h \in Runs : StartReceive(h) \/ SyncOn(h) \/ StartSpawn(h) \/ StartReturn(h)
    \/ SyncOff
    \/ \E r \in Runs :
         \/ SyncLeaderboardBegin(r)
         \/ FirstPageReturn(r)
         \/ LoopCheck(r)
         \/ BeginPage(r)
         \/ Enrich(r)
         \/ AfterEnrich(r)
         \/ UpsertUserData(r)

SpecBatch == InitPage /\ [][NextBatch]_vars

(***************************************************************************)
(* SyncLeaderboard called directly (as createCron and the tests call it)   *)
(* with arbitrary options, the sync flag being on or off; the context is   *)
(* not cancelled during the call.                                          *)
(***************************************************************************)
StartPageInputs == -1 .. CallPages + 1

PagesInputs == -1 .. CallPages + 1

CallWorkerInputs == {-1, 0, 1, 4}

CallDelayInputs == {-5, 0, 5, 800}

OptionInputs ==
    [StartPage : StartPageInputs, Pages : PagesInputs,
     Workers : CallWorkerInputs, Delay : CallDelayInputs]

InitCall ==
    /\ syncingPage = 0
    /\ hnd = [h \in Runs |-> NoHandler]
    /\ enr = [r \in Runs |-> NoEnrich]
    /\ tx = [r \in Runs |-> NoTx]
    /\ userData = {}
    /\ staging = {}
    /\ status = NoStatus
    /\ create = NoCreate
    /\ svc = NoCall
    /\ \E flag \in BOOLEAN, total \in 0 .. CallPages, opts \in OptionInputs :
         /\ sync = flag
         /\ cfg = [relations |-> DeployedRelations, identity |-> "any", starts |-> 0, totalPages |-> total, pageInputs |-> {},
                   nodes |-> AlternatingPages(total), syncOn |-> flag, opts |-> opts]
         /\ run = [r \in Runs |-> IF r = 1 THEN SyncLeaderboardCalled(opts) ELSE NoRun]

NextCall ==
    \/ SyncOff
    \/ SyncLeaderboardBegin(1)
    \/ FirstPageReturn(1)
    \/ LoopCheck(1)
    \/ BeginPage(1)
    \/ PageReturn(1)
    \/ Enrich(1)
    \/ AfterEnrich(1)
    \/ UpsertUserData(1)
    \/ SleepReturn(1)

SpecCall == InitCall /\ [][NextCall]_vars

(***************************************************************************)
(* UpsertUserData on its own: an arbitrary batch is handed MaxCalls times  *)
(* to a store holding an arbitrary table.                                  *)
(***************************************************************************)
SolvedInputs == {3, 4}

Row(u, n) == [fetchAndConvertUser(u, OkResponse(u)).user EXCEPT !.TotalProblemsSolved = n]

RowInputs == {Row(u, n) : u \in {Alice, Bob}, n \in SolvedInputs}

TableInputs ==
    {t \in SUBSET {InsertRow(rec, 0) : rec \in RowInputs} :
        \A a, b \in t : a.Username = b.Username => a = b}

SchemaInputs == {DeployedRelations, MigratedRelations}

InitUpsert ==
    /\ sync = FALSE
    /\ syncingPage = 0
    /\ hnd = [h \in Runs |-> NoHandler]
    /\ enr = [r \in Runs |-> NoEnrich]
    /\ tx = [r \in Runs |-> NoTx]
    /\ staging = {}
    /\ status = NoStatus
    /\ create = NoCreate
    /\ svc = NoCall
    /\ \E batch \in SeqsUpTo(RowInputs, MaxBatch), table \in TableInputs,
          relations \in SchemaInputs :
         /\ userData = table
         /\ cfg = [relations |-> relations, identity |-> "any", starts |-> 0, totalPages |-> 0,
                   pageInputs |-> {}, batch |-> batch, table |-> table]
         /\ run = [r \in Runs |-> IF r = 1
                                   THEN [NoRun EXCEPT !.pc = "enriched", !.users = batch]
                                   ELSE NoRun]

\* the caller comes back with the same batch
Redeliver ==
    /\ run[1].pc = "loop"
    /\ run[1].currentPage < MaxCalls
    /\ run' = [run EXCEPT ![1].pc = "enriched", ![1].users = cfg.batch]
    /\ UNCHANGED <<sync, syncingPage, hnd, enr, tx, userData, staging, status, create, svc, cfg>>

NextUpsert == Redeliver \/ AfterEnrich(1) \/ UpsertUserData(1)

SpecUpsert == InitUpsert /\ [][NextUpsert]_vars

(***************************************************************************)
(* One create-user request: an arbitrary body, an arbitrary answer of the  *)
(* identity endpoint, a store that may hold the username already.          *)
(***************************************************************************)
ProfileInputs ==
    [UserSlug : {Alice, Bob}, UserAvatar : {"avatar", "a.png"}, CountryCode : {"UZ", "US"},
     CountryName : {"Uzbekistan", "United States"}, RealName : {"name", ""},
     Typename : {"UserProfileNode", "UserNode"}]

StatsInputs ==
    { StatsWithAll, StatsWithoutAll, <<>>,
      << [Difficulty |-> "All", Count |-> 5, Submissions |-> 9],
         [Difficulty |-> "Easy", Count |-> 1, Submissions |-> 2] >>,
      << [Difficulty |-> "Hard", Count |-> 0, Submissions |-> 1],
         [Difficulty |-> "All", Count |-> 4, Submissions |-> 8],
         [Difficulty |-> "All", Count |-> 6, Submissions |-> 6] >> }

MatchedUserInputs ==
    {[SubmitStats |-> [ACSubmissionNum |-> stats], Profile |-> profile] :
        stats \in StatsInputs, profile \in ProfileInputs}

IdentityResponses ==
    {[transport |-> "fail", Errors |-> 0, MatchedUser |-> NoMatchedUser],
     [transport |-> "ok", Errors |-> 1, MatchedUser |-> NoMatchedUser],
     [transport |-> "ok", Errors |-> 0, MatchedUser |-> NoMatchedUser]}
    \cup {[transport |-> "ok", Errors |-> n, MatchedUser |-> mu] :
             n \in {0, 1}, mu \in MatchedUserInputs}

RequestInputs ==
    [bound : BOOLEAN, Username : {<<>>, Blank, Alice, PaddedAlice, Bob}]

InitCreate ==
    /\ sync = FALSE
    /\ syncingPage = 0
    /\ hnd = [h \in Runs |-> NoHandler]
    /\ run = [r \in Runs |-> NoRun]
    /\ enr = [r \in Runs |-> NoEnrich]
    /\ tx = [r \in Runs |-> NoTx]
    /\ staging = {}
    /\ status = NoStatus
    /\ create = [NoCreate EXCEPT !.pc = "new"]
    /\ svc = NoCall
    /\ \E request \in RequestInputs, remote \in IdentityResponses,
          table \in {{}, {InsertRow(Row(Alice, 3), 0)}} :
         /\ userData = table
         /\ cfg = [relations |-> DeployedRelations, identity |-> "any", starts |-> 0, totalPages |-> 0, pageInputs |-> {},
                   request |-> request, remote |-> remote, table |-> table]

NextCreate == CreateReceive \/ CreateFetch \/ CreateInsert

SpecCreate == InitCreate /\ [][NextCreate]_vars

(***************************************************************************)
(* The single-row calls of the service on a store holding an arbitrary     *)
(* table: a create-user request for bob next to direct calls of            *)
(* DeleteUserByUsername and UpdateUserByUsername.                          *)
(***************************************************************************)
InitStore ==
    /\ sync = FALSE
    /\ syncingPage = 0
    /\ hnd = [h \in Runs |-> NoHandler]
    /\ run = [r \in Runs |-> NoRun]
    /\ enr = [r \in Runs |-> NoEnrich]
    /\ tx = [r \in Runs |-> NoTx]
    /\ staging = {}
    /\ status = NoStatus
    /\ create = [NoCreate EXCEPT !.pc = "new"]
    /\ svc = NoCall
    /\ \E table \in TableInputs :
         /\ userData = table
         /\ cfg = [relations |-> DeployedRelations, identity |-> "any", starts |-> 0, totalPages |-> 0,
                   pageInputs |-> {}, request |-> [bound |-> TRUE, Username |-> Bob],
                   remote |-> OkResponse(Bob), table |-> table]

NextStore ==
    \/ DeleteUserByUsernameCall
    \/ DeleteUserByUsernameExec
    \/ UpdateUserByUsernameCall
    \/ UpdateUserByUsernameExec
    \/ NextCreate

SpecStore == InitStore /\ [][NextStore]_vars

(***************************************************************************)
(* Properties                                                              *)
(***************************************************************************)
Terminated(e) ==
    /\ e.exited = e.workers
    /\ e.fetching = {}
    /\ e.sleeping = 0
    /\ e.jobsClosed
    /\ e.closer = "done"

\* C1: at most one SyncLeaderboard run is executing at any time, whatever the
\* interleaving of start-run, stop-run and get-status requests.
C1_AtMostOneRun == Cardinality({r \in Runs : Executing(r)}) <= 1

\* C2: a start-run request received while a run is executing is rejected
\* ("syncing is already on") and launches no run.
C2_StartWhileActiveRejected ==
    \A h \in Runs : hnd[h].sawRun => (hnd[h].pc = "rejected" /\ run[h].pc = "none")

\* C3: once a run has gone through all its pages without a stop request (and no
\* other run or start-run request is under way), get-status reports not active,
\* so that a following start-run request is admitted.
C3_CompletionReturnsToIdle ==
    \A r \in Runs :
        ( /\ run[r].pc = "returned"
          /\ run[r].ret = "nil"
          /\ run[r].currentPage > run[r].endPage
          /\ run[r].stopAt = -1
          /\ \A o \in Runs \ {r} : ~Executing(o) /\ hnd[o].pc \notin {"checked", "on"} )
        => ~GetSyncStatus.IsOn

PageOneBatch ==
    {fetchAndConvertUser(u, OkResponse(u)).user :
        u \in Range(extractUsernamesFromPage(RemoteRanking(1)))}

\* C4: in a run over pages 1..5 with stop-run requested during the iteration of
\* page 1 (the database and the remote being healthy), once the run has exited
\* exactly the batch of page 1 is persisted, no later page was fetched and
\* get-status reports not active with current page 1.
C4_StopBetweenPages ==
    ( /\ run[1].pc = "returned"
      /\ run[1].StartPage = 1
      /\ run[1].endPage = RunPages
      /\ run[1].stopAt = 1
      /\ run[1].err \notin {"none", "ErrDB"} )
    => ( /\ run[1].lastFetched = 1
         /\ run[1].lastBegun = 1
         /\ GetSyncStatus = [IsOn |-> FALSE, Page |-> 1]
         /\ {Columns(row) : row \in userData} = PageOneBatch )

\* C5: once stop-run has been issued against an executing run, that run begins
\* no further page iteration, whatever requests follow.
C5_NoIterationAfterStop ==
    [][\A r \in Runs : run[r].stopAt >= 0 => run'[r].lastBegun = run[r].lastBegun]_vars

\* C6: get-status reports active in every state in which a started run has not
\* yet returned; it reports not active only when no run is executing.
C6_StatusTracksRun == (\E r \in Runs : Executing(r)) => GetSyncStatus.IsOn

\* C7: within one run the pages are processed one after the other: while the
\* fetch of a page is in flight, the iteration of the page before it is over
\* (its upsert has returned, or it was skipped, or its batch was empty), no
\* enrichment worker of the run is alive and no upsert of the run is in progress.
C7_PagesSequential ==
    \A r \in Runs :
        run[r].pc = "fetchPage" =>
            /\ run[r].lastFetched = run[r].currentPage
            /\ run[r].lastDone = run[r].currentPage - 1
            /\ tx[r].pc = "idle"
            /\ enr[r] = NoEnrich

C7_Witness ==
    \E r \in Runs :
        /\ run[r].pc = "fetchPage"
        /\ run[r].currentPage = 3
        /\ run[r].totalProcessedUsers = 2
        /\ Cardinality(userData) = 2

\* C8: at no time are two UpsertUserData transactions in progress.
C8_SingleUpsert == Cardinality({r \in Runs : tx[r].pc # "idle"}) <= 1

\* C9: UpsertUserData for a page starts only after every enrichment worker of
\* that page has terminated (nothing is being fetched, nothing is left in the
\* channels), and the run writes nothing to the store while it enriches.
C9_UpsertAfterWorkers ==
    \A r \in Runs :
        /\ run[r].pc = "enriched" =>
              /\ Terminated(enr[r])
              /\ enr[r].results = <<>> /\ enr[r].errors = <<>>
        /\ tx[r].pc # "idle" => run[r].pc = "upsert" /\ enr[r] = NoEnrich
        /\ run[r].pc = "enrich" => tx[r].pc = "idle"

C9_Witness ==
    \E r \in Runs :
        /\ tx[r].pc = "merge"
        /\ Len(run[r].users) = 1
        /\ run[r].Workers = HandlerWorkers

CountOf(name, names) == Cardinality({i \in 1 .. Len(names) : names[i] = name})

\* C10: processUsersConcurrently called with N usernames of which M fail returns
\* exactly N - M records, one for each username whose fetch succeeded, and a nil
\* error, for every worker count and completion order.
C10_EnrichReturnsSuccesses ==
    run[1].pc = "enriched" =>
        LET e == enr[1]
            ok == {i \in 1 .. Len(e.usernames) : i \notin e.failed}
            users == run[1].users
        IN  /\ run[1].enrichErr = "nil"
            /\ Len(users) = Len(e.usernames) - Cardinality(e.failed)
            /\ \A k \in 1 .. Len(users) : users[k] # NoRecord
            /\ \A name \in NameInputs :
                 Cardinality({k \in 1 .. Len(users) : users[k].Username = name})
                   = Cardinality({i \in ok : TrimSpace(e.usernames[i]) = name})

C10_Witness ==
    /\ run[1].pc = "enriched"
    /\ Len(enr[1].usernames) = 2
    /\ Cardinality(enr[1].failed) = 1
    /\ enr[1].workers = 2
    /\ Len(run[1].users) = 1

\* C11: during one enrichment call at most workerCount identity fetches are in
\* flight at any instant, a workerCount of 0 or less counting as 1.
C11_FetchesBounded ==
    LET e == enr[1]
        workerCount == IF e.workersArg <= 0 THEN 1 ELSE e.workersArg
    IN  run[1].pc \in {"enrich", "enriched"} =>
            /\ Cardinality(e.fetching) <= workerCount
            /\ Cardinality(e.fetching) + e.sleeping + e.exited <= workerCount

C11_Witness ==
    /\ run[1].pc = "enrich"
    /\ enr[1].workersArg <= 0
    /\ Cardinality(enr[1].fetching) = 1
    /\ enr[1].taken < enr[1].fed

\* the step in which tx.Commit() of run r succeeds
CommitSucceeds(r) == tx[r].pc = "commit" /\ tx'[r].pc = "idle" /\ run'[r].err = "nil"

\* C12: if UpsertUserData fails at any step it returns an error and the
\* permanent store is as it was before the call: as long as no call has
\* committed the table is the initial one, and no step of a call other than a
\* successful commit changes the table or the committed staging rows.
C12_FailedUpsertChangesNothing ==
    /\ [](run[1].totalProcessedUsers = 0 => userData = cfg.table)
    /\ [][(tx[1].pc # "idle" /\ ~CommitSucceeds(1)) =>
             /\ userData' = userData
             /\ staging' = staging
             /\ tx'[1].pc = "idle" => run'[1].err \in {"ErrDB", "ErrContextCanceled"}]_vars

C12_Witness ==
    /\ tx[1].pc = "idle"
    /\ run[1].pc = "loop"
    /\ run[1].currentPage = 1
    /\ run[1].err = "ErrDB"
    /\ \E b \in Range(cfg.batch) : b \notin {Columns(row) : row \in cfg.table}
    /\ userData = cfg.table

\* C13 (as stated): the same, and a second successful application of the same
\* batch leaves the stored rows exactly as the first application left them.
C13_ReapplyLeavesRowsIdentical ==
    [][(CommitSucceeds(1) /\ run[1].totalProcessedUsers > 0) => userData' = userData]_vars

\* C13 (amended): after UpsertUserData succeeded, every username of the batch has
\* exactly one row in user_data and that row carries the batch value in every
\* column of the batch, whatever row the username had before; created_at of a
\* row that existed is kept.  A second successful application of the same batch
\* leaves those columns and created_at as the first left them and moves
\* updated_at of every row of the batch forward.
C13_UpsertOverwrites ==
    /\ []((tx[1].pc = "idle" /\ run[1].pc = "loop" /\ run[1].err = "nil") =>
            \A b \in Range(cfg.batch) :
                /\ Cardinality({row \in userData : row.Username = b.Username}) = 1
                /\ \A row \in userData : row.Username = b.Username => Columns(row) = b
                /\ \A old \in cfg.table, row \in userData :
                     old.Username = row.Username => row.created_at = old.created_at)
    /\ [][(CommitSucceeds(1) /\ run[1].totalProcessedUsers > 0) =>
             /\ {Columns(row) : row \in userData'} = {Columns(row) : row \in userData}
             /\ \A row \in userData, new \in userData' :
                  new.Username = row.Username =>
                     /\ new.created_at = row.created_at
                     /\ IF new.Username \in Usernames(cfg.batch)
                        THEN new.updated_at = tx[1].began /\ new.updated_at > row.updated_at
                        ELSE new.updated_at = row.updated_at]_vars

C13_Witness ==
    /\ tx[1].pc = "idle"
    /\ run[1].pc = "loop"
    /\ run[1].err = "nil"
    /\ Len(cfg.batch) = 2
    /\ run[1].totalProcessedUsers = 2 * Len(cfg.batch)
    /\ \E b \in Range(cfg.batch), old \in cfg.table :
         /\ old.Username = b.Username
         /\ Columns(old) # b
         /\ \E row \in userData : Columns(row) = b /\ row.updated_at > row.created_at

\* the whitespace-trimmed, non-empty usernames of a sequence of ranking entries
TrimmedNames(nodes) == {TrimSpace(nodes[i].User.Username) : i \in 1 .. Len(nodes)} \ {<<>>}

\* the usernames extracted from the page of the single-page run
Extracted == extractUsernamesFromPage(RemoteRanking(1))

\* C14: extractUsernamesFromPage returns exactly the whitespace-trimmed,
\* non-empty usernames of the page's entries, each exactly once; a page without
\* entries gives the empty sequence.
C14_ExtractExactlyOnce ==
    run[1].pc = "enrich" =>
        /\ enr[1].usernames = Extracted
        /\ Range(Extracted) = TrimmedNames(cfg.nodes[1])
        /\ Len(Extracted) = Cardinality(TrimmedNames(cfg.nodes[1]))
        /\ cfg.nodes[1] = <<>> => Extracted = <<>>

C14_Witness ==
    /\ run[1].pc = "enrich"
    /\ Len(cfg.nodes[1]) = 3
    /\ cfg.nodes[1][1].User.Username = PaddedAlice
    /\ cfg.nodes[1][2].User.Username = Blank
    /\ cfg.nodes[1][3].User.Username = Alice
    /\ enr[1].usernames = <<Alice>>

Ascending(s) == \A i \in 1 .. Len(s) - 1 : LexLess(s[i], s[i + 1])

Reorderings(s) ==
    {[i \in 1 .. Len(s) |-> s[q[i]]] :
        q \in {p \in [1 .. Len(s) -> 1 .. Len(s)] :
                 \A i, j \in 1 .. Len(s) : p[i] = p[j] => i = j}}

\* C15: the sequence returned by extractUsernamesFromPage is in ascending
\* lexicographic order, and every page whose entries are a permutation of the
\* page's entries gives the same sequence.
C15_ExtractSorted ==
    run[1].pc = "enrich" =>
        /\ Ascending(enr[1].usernames)
        /\ \A nodes \in Reorderings(cfg.nodes[1]) :
             extractUsernamesFromPage([TotalPages |-> 1, RankingNodes |-> nodes])
               = enr[1].usernames

C15_Witness ==
    /\ run[1].pc = "enrich"
    /\ Len(cfg.nodes[1]) = 3
    /\ cfg.nodes[1][1].User.Username = Bob
    /\ cfg.nodes[1][2].User.Username = PaddedAlice
    /\ cfg.nodes[1][3].User.Username = Alice
    /\ enr[1].usernames = <<Alice, Bob>>

\* the distinct non-empty trimmed usernames on the page of the single-page run
PageNames == TrimmedNames(cfg.nodes[1])

\* C16: in a run over a single page the number of identity fetches issued is
\* the number of distinct non-empty trimmed usernames on the page, each fetched
\* once, and when every fetch succeeded (the database being healthy) the upsert
\* of the batch leaves exactly that many rows in the store.
C16_SinglePageRun ==
    /\ [](run[1].pc = "enriched" =>
            /\ Len(enr[1].usernames) = Cardinality(PageNames)
            /\ Range(enr[1].usernames) = PageNames
            /\ enr[1].taken = Cardinality(PageNames)
            /\ enr[1].failed = {} => Len(run[1].users) = Cardinality(PageNames))
    /\ [][( /\ run[1].pc = "upsert"
            /\ run'[1].pc # "upsert"
            /\ Len(run[1].users) = Cardinality(PageNames)
            /\ run'[1].err # "ErrDB" )
          => Cardinality(userData') = Cardinality(PageNames)]_vars

Min(a, b) == IF a < b THEN a ELSE b

\* C17: the effective end page is min(totalPages, startPage + pages - 1) when
\* pages is positive and totalPages otherwise; the run begins its iterations at
\* startPage and goes up one page at a time, and a run that was not stopped has,
\* when it returns, iterated up to endPage, or not at all when startPage > endPage.
C17_EndPageAndRange ==
    /\ [](run[1].pc \notin {"none", "started", "fetchFirst"} /\ run[1].ret \in {"none", "nil"} =>
            run[1].endPage = IF run[1].Pages > 0
                             THEN Min(cfg.totalPages, run[1].StartPage + run[1].Pages - 1)
                             ELSE cfg.totalPages)
    /\ [][run'[1].lastBegun # run[1].lastBegun =>
             run'[1].lastBegun = IF run[1].lastBegun = 0 THEN run[1].StartPage
                                 ELSE run[1].lastBegun + 1]_vars
    /\ []((run[1].pc = "returned" /\ run[1].ret = "nil" /\ cfg.syncOn /\ run[1].stopAt = -1) =>
            run[1].lastBegun = IF run[1].StartPage <= run[1].endPage THEN run[1].endPage
                               ELSE 0)

C17_Witness ==
    /\ run[1].pc = "returned"
    /\ run[1].ret = "nil"
    /\ cfg.syncOn
    /\ run[1].stopAt = -1
    /\ cfg.totalPages = 3
    /\ run[1].StartPage = 1
    /\ run[1].Pages = 2
    /\ run[1].lastBegun = 2

\* C18: if the fetch of the start page fails, SyncLeaderboard returns an error
\* having started no enrichment and no upsert and written nothing; the fetch of
\* any other page, whatever its outcome, does not make SyncLeaderboard return,
\* and an error is returned from the start-page fetch only.
C18_OnlyFirstPageAborts ==
    /\ [](run[1].ret = "ErrFetchFirstPage" =>
            /\ run[1].pc = "returned"
            /\ run[1].fetchErr # "nil"
            /\ run[1].lastBegun = 0
            /\ run[1].enrichErr = "none"
            /\ enr[1] = NoEnrich
            /\ run[1].err = "none"
            /\ tx[1] = NoTx
            /\ userData = {} /\ staging = {})
    /\ [][run[1].pc = "fetchPage" => run'[1].ret = "none"]_vars
    /\ [][(run'[1].ret # run[1].ret /\ run'[1].ret # "nil") => run[1].pc = "fetchFirst"]_vars

C18_Witness ==
    /\ run[1].pc = "returned"
    /\ run[1].ret = "ErrFetchFirstPage"
    /\ run[1].fetchErr = "ErrGraphQL"
    /\ hnd[1].pc = "returned"

\* C19: after a run has ended because its start-page fetch failed (no other run
\* or start-run request being under way), get-status reports not active, so
\* that a new start-run request is admitted.
C19_ResetAfterFirstPageFailure ==
    \A r \in Runs :
        ( /\ run[r].pc = "returned"
          /\ run[r].ret = "ErrFetchFirstPage"
          /\ \A o \in Runs \ {r} : ~Executing(o) /\ hnd[o].pc \notin {"checked", "on"} )
        => ~GetSyncStatus.IsOn

\* C20: when the fetch of a page other than the start page fails, the run moves
\* to the next page with no enrichment and no upsert for the failed page and
\* nothing written; from the loop head it then begins that next page if the
\* flag is on and the page is in range.
C20_FailedPageSkipped ==
    /\ [][(run[1].pc = "fetchPage" /\ run'[1].pc # "fetchPage" /\ run'[1].fetchErr # "nil") =>
             /\ run'[1].pc = "loop"
             /\ run'[1].currentPage = run[1].currentPage + 1
             /\ run'[1].totalProcessedUsers = run[1].totalProcessedUsers
             /\ enr'[1] = NoEnrich
             /\ tx'[1] = NoTx
             /\ userData' = userData
             /\ staging' = staging]_vars
    /\ [][(run[1].pc = "loop" /\ run'[1].pc # "loop"
               /\ sync /\ run[1].currentPage <= run[1].endPage) =>
             /\ run'[1].pc = "iter"
             /\ run'[1].lastBegun = run[1].currentPage]_vars

C20_Witness ==
    /\ run[1].pc = "fetchPage"
    /\ run[1].fetchErr = "ErrTransport"
    /\ run[1].currentPage = 3
    /\ run[1].lastDone = 2
    /\ run[1].totalProcessedUsers = 1

\* C21: when UpsertUserData fails for the batch of page N the run goes on (to
\* the politeness sleep and then page N+1 if N is before the end page, to the
\* loop head with page N+1 otherwise) without returning, the table is as it
\* was and the running total is not increased; the total grows only when an
\* upsert succeeds, and then by the size of that batch, whose usernames are
\* all stored.
C21_FailedBatchNotCounted ==
    /\ [][(run[1].pc = "upsert" /\ run'[1].pc # "upsert" /\ run'[1].err # "nil") =>
             /\ userData' = userData
             /\ run'[1].totalProcessedUsers = run[1].totalProcessedUsers
             /\ run'[1].ret = "none"
             /\ IF run[1].currentPage < run[1].endPage
                THEN run'[1].pc = "sleep" /\ run'[1].currentPage = run[1].currentPage
                ELSE run'[1].pc = "loop" /\ run'[1].currentPage = run[1].currentPage + 1]_vars
    /\ [][(run[1].pc = "sleep" /\ run'[1].pc # "sleep") =>
             run'[1].pc = "loop" /\ run'[1].currentPage = run[1].currentPage + 1]_vars
    /\ [][(run[1].pc = "upsert" /\ run'[1].pc # "upsert" /\ run'[1].err = "nil") =>
             /\ run'[1].totalProcessedUsers = run[1].totalProcessedUsers + Len(run[1].users)
             /\ Usernames(run[1].users) \subseteq {row.Username : row \in userData'}]_vars
    /\ [][~(run[1].pc = "upsert" /\ run'[1].pc # "upsert") =>
             run'[1].totalProcessedUsers = run[1].totalProcessedUsers]_vars

C21_Witness ==
    /\ run[1].pc = "iter"
    /\ run[1].currentPage = 3
    /\ run[1].err = "ErrDB"
    /\ run[1].totalProcessedUsers = 1
    /\ {row.Username : row \in userData} = {Alice}

\* the create-user request got an answer of the identity endpoint that decoded
\* under HTTP 200 and has no matched user
EmptyIdentityReceived ==
    /\ create.pc = "replied"
    /\ create.reply # 400
    /\ TrimSpace(create.Username) # <<>>
    /\ cfg.remote.transport = "ok"
    /\ cfg.remote.MatchedUser = NoMatchedUser

\* C22 (as stated): a response whose matched-user field is empty makes the
\* identity fetch return the identity-not-available error, and create-user
\* replies not found.
C22_EmptyIdentityIsNotAvailable ==
    EmptyIdentityReceived => (create.err = "ErrUserNotAvailable" /\ create.reply = 404)

\* C22 (amended): a response without GraphQL errors whose matched-user field is
\* empty makes the identity fetch return the identity-not-available error and
\* no record (with a GraphQL error list it is the upstream error instead);
\* no other response gives that error.  Create-user replies 404 exactly for
\* that error and 500 for every other failure of the fetch or of the insert,
\* and the store is as it was in both cases.
C22_NotAvailableIsNotFound ==
    /\ (EmptyIdentityReceived /\ cfg.remote.Errors = 0) =>
          (create.err = "ErrUserNotAvailable" /\ create.data = NoRecord)
    /\ (EmptyIdentityReceived /\ cfg.remote.Errors > 0) => create.err = "ErrGraphQL"
    /\ create.err = "ErrUserNotAvailable" => (EmptyIdentityReceived /\ cfg.remote.Errors = 0)
    /\ (create.pc = "replied" /\ create.reply # 400) =>
          /\ create.reply = 404 <=> create.err = "ErrUserNotAvailable"
          /\ create.reply = 500 <=> create.err \notin {"nil", "ErrUserNotAvailable"}
          /\ create.reply = 201 <=> create.err = "nil"
          /\ create.reply \in {404, 500} => userData = cfg.table

C22_Witness ==
    /\ EmptyIdentityReceived
    /\ create.reply = 404
    /\ create.Username = PaddedAlice
    /\ userData = cfg.table
    /\ cfg.table # {}

\* the first entry of the remote answer whose difficulty is "All"
RemoteAll ==
    LET stats == cfg.remote.MatchedUser.SubmitStats.ACSubmissionNum
        first == {i \in 1 .. Len(stats) :
                    /\ stats[i].Difficulty = "All"
                    /\ \A j \in 1 .. i - 1 : stats[j].Difficulty # "All"}
    IN  IF first = {} THEN NoRecord ELSE stats[CHOOSE i \in first : TRUE]

\* C23: the record built from a fetched identity has TotalProblemsSolved = the
\* count and TotalSubmissions = the submissions of the "All" entry, Username =
\* the trimmed requested username, and slug, avatar, country code, country
\* name, real name and typename of the fetched profile; create-user stores
\* exactly these columns.
C23_RecordFromAllEntry ==
    (create.pc = "insert" \/ create.reply = 201) =>
        /\ RemoteAll # NoRecord
        /\ create.data.TotalProblemsSolved = RemoteAll.Count
        /\ create.data.TotalSubmissions = RemoteAll.Submissions
        /\ create.data.Username = TrimSpace(cfg.request.Username)
        /\ \A f \in {"UserSlug", "UserAvatar", "CountryCode", "CountryName",
                      "RealName", "Typename"} :
               create.data[f] = cfg.remote.MatchedUser.Profile[f]
        /\ create.reply = 201 => \E row \in userData : Columns(row) = create.data

C23_Witness ==
    /\ create.reply = 201
    /\ cfg.request.Username = PaddedAlice
    /\ cfg.remote.MatchedUser.Profile.UserSlug = Bob
    /\ Len(cfg.remote.MatchedUser.SubmitStats.ACSubmissionNum) = 3
    /\ create.data.TotalProblemsSolved = 4
    /\ create.data.TotalSubmissions = 8

\* C24: a page response under HTTP 200 that carries a GraphQL error list makes
\* the page fetch fail: no page is handed to extraction or enrichment and
\* nothing is written, although the response carries the page as well; an
\* identity response under HTTP 200 with an error list makes the identity
\* fetch fail, so that no record of that job is delivered.
C24_ErrorListFails ==
    /\ [][run'[1].errorLists > run[1].errorLists =>
             /\ run'[1].fetchErr = "ErrGraphQL"
             /\ run'[1].pc \in {"returned", "loop"}
             /\ run'[1].pc = "returned" <=> run[1].pc = "fetchFirst"
             /\ enr'[1] = NoEnrich
             /\ run'[1].users = <<>>
             /\ tx'[1] = NoTx
             /\ userData' = userData]_vars
    /\ [](/\ enr[1].errorLists \subseteq enr[1].failed
          /\ Len(enr[1].results) + Len(enr[1].users) <=
                enr[1].taken - Cardinality(enr[1].fetching) - Cardinality(enr[1].failed))

C24_Witness ==
    /\ run[1].errorLists = 1
    /\ run[1].lastDone = 2
    /\ run[1].currentPage = 3
    /\ run[1].pc = "enrich"
    /\ enr[1].errorLists = {1}
    /\ enr[1].errs = <<"ErrGraphQL">>
    /\ enr[1].users = <<>>

\* C25: once the context passed to SyncLeaderboard is cancelled the run issues
\* no further page request, no worker starts another identity fetch and no
\* UpsertUserData call is made.
C25_NothingStartsAfterCancel ==
    [][CtxDone(1) =>
         /\ Len(run'[1].requested) = Len(run[1].requested)
         /\ enr'[1].taken <= enr[1].taken
         /\ tx[1].pc = "idle" => tx'[1].pc = "idle"]_vars

\* C26: when a run returns having begun a page iteration, the page that
\* get-status reports is the last page whose iteration that run began; the
\* reported page changes only in the step in which a run begins a page
\* iteration, and the steps of get-status change nothing of the service.
C26_StatusPageRetained ==
    /\ [][\A r \in Runs :
             (run[r].pc # "returned" /\ run'[r].pc = "returned" /\ run'[r].lastBegun > 0) =>
                 GetSyncStatus'.Page = run'[r].lastBegun]_vars
    /\ [][syncingPage' # syncingPage =>
             \E r \in Runs : run[r].pc = "iter" /\ syncingPage' = run[r].currentPage]_vars
    /\ [][status' # status =>
             UNCHANGED <<sync, syncingPage, hnd, run, enr, tx, userData, staging>>]_vars

\* the jobs of the enrichment call whose identity fetch has returned
FetchesOver(e) == (1 .. e.taken) \ e.fetching

\* C27: an identity fetch for an empty or all-blank username returns an error
\* and sends no request (requests were sent for the other usernames only, one
\* each); a fetch whose request fails in transport returns an error; no record
\* is delivered for either.
C27_BlankSendsNothing ==
    LET e == enr[1]
    IN  /\ e.sent = Cardinality({i \in FetchesOver(e) : TrimSpace(e.usernames[i]) # <<>>})
        /\ \A i \in FetchesOver(e) : TrimSpace(e.usernames[i]) = <<>> => i \in e.failed
        /\ e.unreachable \subseteq e.failed
        /\ Len(e.results) + Len(e.users) <= Cardinality(FetchesOver(e) \ e.failed)

C27_Witness ==
    /\ enr[1].usernames = << <<>>, Alice >>
    /\ Terminated(enr[1])
    /\ enr[1].sent = 1
    /\ enr[1].unreachable = {2}
    /\ enr[1].failed = {1, 2}
    /\ enr[1].users = <<>>
    /\ Len(enr[1].errs) = 2

\* C28: of the pages a run has requested from the page client, exactly one
\* request is for the start page (the first one; the first iteration goes to
\* enrichment without another request), no page is requested twice, and every
\* other request is for a page after the start page up to the end page.
C28_PagesRequestedOnce ==
    LET q == run[1].requested
    IN  run[1].pc # "started" =>
        /\ Cardinality({i \in DOMAIN q : q[i] = run[1].StartPage}) = 1
        /\ q[1] = run[1].StartPage
        /\ \A i, j \in DOMAIN q : q[i] = q[j] => i = j
        /\ \A i \in DOMAIN q \ {1} : q[i] > run[1].StartPage /\ q[i] <= run[1].endPage
        /\ (run[1].pc \in {"enrich", "enriched", "upsert"}
               /\ run[1].currentPage = run[1].StartPage) => Len(q) = 1

C28_Witness ==
    /\ run[1].pc = "returned"
    /\ run[1].ret = "nil"
    /\ run[1].StartPage = 2
    /\ run[1].requested = <<2, 3>>
    /\ run[1].lastBegun = 3
    /\ run[1].totalProcessedUsers = 2

\* C29: when processUsersConcurrently returned no record for a page, the run
\* goes on to the politeness sleep or the loop head without a call of
\* UpsertUserData: no transaction is begun, the error and the total of the
\* last upsert stay, and user_data and the staging table are as they were;
\* outside a call of UpsertUserData no step of the run writes to either table.
C29_EmptyBatchNotUpserted ==
    /\ [][(run[1].pc = "enriched" /\ run'[1].pc # "enriched" /\ Len(run[1].users) = 0) =>
             /\ run'[1].pc \in {"sleep", "loop"}
             /\ tx'[1] = NoTx
             /\ run'[1].err = run[1].err
             /\ run'[1].totalProcessedUsers = run[1].totalProcessedUsers
             /\ userData' = userData
             /\ staging' = staging]_vars
    /\ [][run[1].pc # "upsert" => (userData' = userData /\ staging' = staging)]_vars

C29_Witness ==
    /\ run[1].pc = "sleep"
    /\ run[1].currentPage = 2
    /\ run[1].lastDone = 2
    /\ run[1].fetchErr = "nil"
    /\ run[1].err = "nil"
    /\ run[1].totalProcessedUsers = 1
    /\ {row.Username : row \in userData} = {Alice}
    /\ {row.Username : row \in staging} = {Alice}

\* C30: when a run issues a page request after an earlier one, it has slept
\* the politeness delay at least once since that earlier request; and the
\* run goes to the politeness sleep only from a page before the end page.
C30_SleepBetweenPageRequests ==
    /\ [][(Len(run'[1].requested) > Len(run[1].requested) /\ Len(run[1].requested) > 0) =>
             run[1].slept > 0]_vars
    /\ [][(run'[1].pc = "sleep" /\ run[1].pc # "sleep") =>
             run[1].currentPage < run[1].endPage]_vars

\* C31: the start page the run requests first and iterates from is 1 when the
\* given start page is below 1 and the given one otherwise; the delay handed
\* to every enrichment call is 800 ms when the given delay is 0 or less and
\* the given one otherwise; the worker count handed to it is at least 1 when
\* the given count is 0 or less and the given one otherwise.
C31_OptionsNormalized ==
    LET opts == cfg.opts
    IN  run[1].pc # "started" =>
        /\ run[1].StartPage = IF opts.StartPage < 1 THEN 1 ELSE opts.StartPage
        /\ run[1].requested[1] = run[1].StartPage
        /\ run[1].Delay = IF opts.Delay <= 0 THEN 800 ELSE opts.Delay
        /\ IF opts.Workers <= 0 THEN run[1].Workers >= 1 ELSE run[1].Workers = opts.Workers
        /\ run[1].pc \in {"enrich", "enriched"} =>
              /\ enr[1].workersArg = run[1].Workers
              /\ enr[1].workers = run[1].Workers
              /\ enr[1].delay = run[1].Delay

C31_Witness ==
    /\ cfg.opts.StartPage = -1
    /\ cfg.opts.Workers = 0
    /\ cfg.opts.Delay = -5
    /\ run[1].pc = "enrich"
    /\ run[1].currentPage = 1
    /\ run[1].requested = <<1>>
    /\ enr[1].workersArg = 3
    /\ enr[1].delay = 800
    /\ enr[1].usernames = <<Alice>>

\* C32: with a single start-run request, a run against which stop-run was
\* issued eventually returns, and it has then begun no page after the one
\* that was in progress at the stop; a run that is not stopped eventually
\* returns as well, the page range being finite.
C32_RunEventuallyReturns ==
    /\ (run[1].stopAt >= 0) ~> (run[1].pc = "returned")
    /\ Executing(1) ~> (run[1].pc = "returned")
    /\ []((run[1].stopAt >= 0 /\ run[1].pc = "returned") =>
            run[1].lastBegun = run[1].stopAt)

C32_Witness ==
    /\ run[1].pc = "returned"
    /\ run[1].stopAt = 2
    /\ run[1].lastBegun = 2
    /\ run[1].endPage = RunPages
    /\ run[1].totalProcessedUsers = 2
    /\ ~sync

\* C33: processUsersConcurrently returns, whatever the usernames, the worker
\* count and the outcomes of the fetches: until it has returned some goroutine
\* can take a step, a worker that is fetching finds room in both channels
\* for what it will send, and when the collecting loop returns every username
\* was handed out, the feeder and all workers have exited and both channels
\* are closed and empty.
C33_EnrichTerminates ==
    /\ <>(run[1].pc = "enriched")
    /\ [](run[1].pc = "enrich" => ENABLED NextEnrich)
    /\ [](enr[1].fetching # {} =>
            /\ Len(enr[1].results) < ChanCap(enr[1])
            /\ Len(enr[1].errors) < ChanCap(enr[1]))
    /\ [](run[1].pc = "enriched" =>
            /\ Terminated(enr[1])
            /\ enr[1].taken = Len(enr[1].usernames)
            /\ ResultsClosed(enr[1]) /\ ErrorsClosed(enr[1])
            /\ enr[1].results = <<>> /\ enr[1].errors = <<>>)

C33_Witness ==
    /\ run[1].pc = "enriched"
    /\ Len(enr[1].usernames) = MaxNames
    /\ enr[1].workers = 3
    /\ Cardinality(enr[1].failed) = 1
    /\ Len(enr[1].users) = MaxNames - 1
    /\ enr[1].delay > 0

\* C34: the step in which UpsertUserData(batch) succeeds leaves in user_data,
\* for each username of the batch, exactly one row, whose columns other than
\* the timestamps are those of the batch record; the rows of the other
\* usernames are the rows that were there, no other row appears, and the
\* staging table holds exactly the records of the batch.
C34_UpsertPostState ==
    [][CommitSucceeds(1) =>
         LET batch == Range(run[1].users)
             names == Usernames(run[1].users)
         IN  /\ \A b \in batch :
                  /\ Cardinality({row \in userData' : row.Username = b.Username}) = 1
                  /\ \A row \in userData' : row.Username = b.Username => Columns(row) = b
             /\ {row \in userData' : row.Username \notin names}
                  = {row \in userData : row.Username \notin names}
             /\ staging' = batch]_vars

C34_Witness ==
    /\ tx[1].pc = "idle"
    /\ run[1].pc = "loop"
    /\ run[1].err = "nil"
    /\ Len(cfg.batch) = 1
    /\ Cardinality(cfg.table) = 2
    /\ cfg.batch[1] \notin {Columns(row) : row \in cfg.table}
    /\ cfg.batch[1] \in {Columns(row) : row \in userData}
    /\ Cardinality(userData \cap cfg.table) = 1
    /\ staging = {cfg.batch[1]}

\* C35: the records SyncLeaderboard hands to UpsertUserData have pairwise
\* distinct usernames, whatever entries the page lists: the bulk load meets
\* no repeated username and the merge finds at most one staged row for each
\* username.
C35_BatchUsernamesDistinct ==
    \A r \in Runs :
        /\ run[r].pc \in {"enriched", "upsert"} =>
              Cardinality(Usernames(run[r].users)) = Len(run[r].users)
        /\ tx[r].pc = "merge" =>
              /\ Cardinality({s.Username : s \in tx[r].staged}) = Cardinality(tx[r].staged)
              /\ Cardinality(tx[r].staged) = Len(run[r].users)

C35_Witness ==
    /\ tx[1].pc = "merge"
    /\ Len(run[1].users) = 2
    /\ Len(cfg.nodes[1]) = 3
    /\ cfg.nodes[1][1] = Node(Alice)
    /\ cfg.nodes[1][3] = Node(PaddedAlice)
    /\ Usernames(run[1].users) = {Alice, Bob}

\* C36 (as stated): a call made while the flag is off requests the start page
\* only, begins no iteration, persists nothing, leaves the page cursor as it
\* was, and returns nil.
C36_FlagOffReturnsNil ==
    ~cfg.syncOn =>
        /\ run[1].pc # "started" => run[1].requested = <<run[1].StartPage>>
        /\ run[1].pc \in {"started", "fetchFirst", "loop", "returned"}
        /\ run[1].lastBegun = 0
        /\ tx[1] = NoTx /\ userData = {} /\ staging = {}
        /\ syncingPage = 0
        /\ run[1].pc = "returned" => run[1].ret = "nil"

\* C36: a call made while the flag is off requests the start page only,
\* begins no iteration, persists nothing and leaves the page cursor as it
\* was; it returns nil if the request for the start page succeeded and the
\* first-page error otherwise.
C36_FlagOffFetchesStartPageOnly ==
    ~cfg.syncOn =>
        /\ run[1].pc # "started" => run[1].requested = <<run[1].StartPage>>
        /\ run[1].pc \in {"started", "fetchFirst", "loop", "returned"}
        /\ run[1].lastBegun = 0
        /\ tx[1] = NoTx /\ userData = {} /\ staging = {}
        /\ syncingPage = 0
        /\ run[1].pc = "returned" =>
              run[1].ret = IF run[1].fetchErr = "nil" THEN "nil" ELSE "ErrFetchFirstPage"

C36_Witness ==
    /\ ~cfg.syncOn
    /\ cfg.totalPages = 3
    /\ cfg.opts.StartPage = 1
    /\ cfg.opts.Pages = 0
    /\ run[1].pc = "returned"
    /\ run[1].ret = "nil"
    /\ run[1].endPage = 3
    /\ run[1].currentPage = 1
    /\ run[1].requested = <<1>>

\* C37: the context under which a run started by the start-run endpoint
\* performs its upserts is still live after the endpoint has returned its
\* response: an upsert begun after the response can open its transaction and
\* go on to commit, and no upsert of the run ends with a cancelled context.
C37_UpsertContextOutlivesResponse ==
    \A r \in Runs :
        /\ run[r].err # "ErrContextCanceled"
        /\ (hnd[r].pc = "returned" /\ run[r].pc = "upsert" /\ tx[r].pc = "begin") =>
              ENABLED BeginTx(r)

\* C38: on a database that holds exactly the relations the migration creates,
\* the relation UpsertUserData truncates exists: an upsert that has opened its
\* transaction, with no other holder of the table lock, can truncate.
C38_TruncateOnMigratedSchema ==
    (cfg.relations = MigratedRelations /\ run[1].pc = "upsert" /\ tx[1].pc = "truncate") =>
        /\ stagingUserDataTable \in cfg.relations
        /\ ENABLED Truncate(1)

====
